---- MODULE Spec2Model ----
(***************************************************************************)
(* A model of the out-of-band firmware update engine BF_DPU_Update         *)
(* (src/src/bf_dpu_update.py) and of its command line wrapper              *)
(* (src/OobUpdate.py).                                                     *)
(*                                                                         *)
(* Every function of the engine that is modelled step by step owns one     *)
(* variable, the record of its activation frame.  A frame whose pc is      *)
(* "idle" is not active.  Python strings that the code only tests with     *)
(* `phrase in text` are modelled by the set of the phrases they contain;   *)
(* the empty string is the empty set.  Strings the code rewrites           *)
(* (redaction) are sequences of one-character strings.                     *)
(***************************************************************************)
EXTENDS Integers, Sequences, FiniteSets, TLC

VARIABLES
    wt,     \* frame of _wait_task
    hs,     \* one application of _handle_status_code
    gv,     \* frame of get_ver
    lg,     \* one call of log
    mn,     \* frame of main (OobUpdate.py)
    du,     \* frame of do_update and of the module workflow it runs
    vc,     \* one application of a version function
    hp,     \* simple_update_by_http and the file-server process it starts
    wf,     \* frame of a wait for the controller or the system after a reset
    ak,     \* confirm_ssh_key_with_bmc and the local authorized_keys file
    cm      \* frame of run_command_on_bmc

vars == <<wt, hs, gv, lg, mn, du, vc, hp, wf, ak, cm>>

Idle == [pc |-> "idle"]

(***************************************************************************)
(* Outcomes of a call: a returned value, an Err_Exception carrying         *)
(* err_num, or another Python exception.  msg is the text the exception    *)
(* carries, where the model needs it.                                      *)
(***************************************************************************)
NoOutcome == [kind |-> "none", val |-> "none", msg |-> {}]

Ret(v) == [kind |-> "return", val |-> v, msg |-> {}]

Err(num) == [kind |-> "Err_Exception", val |-> num, msg |-> {}]

ErrMsg(num, m) == [kind |-> "Err_Exception", val |-> num, msg |-> m]

Exc(name) == [kind |-> name, val |-> "none", msg |-> {}]

Raised(o) == o.kind \notin {"none", "return"}

(***************************************************************************)
(* Phrases the engine looks for in the texts the controller returns.       *)
(***************************************************************************)
MsgIdentical == "Component image is identical"

MsgBgCopy == "Wait for background copy operation"

MsgPubKey == "Please provide server's public key using PublicKeyExchange"

MsgWeb == "Check and restart server's web service"

MsgLocked == "Account temporarily locked out"

MsgInvalid == "Invalid username or password"

MsgInProgress == "An update is in progress"

MsgOther == "some other text"

(***************************************************************************)
(* HTTP responses.  has_error: the body has ['error']['message'] (text     *)
(* err_msg) and ['error']['code'] (text err_code); has_ext: the body has   *)
(* ['Attributes@Message.ExtendedInfo'][0]['Message'] (text ext_msg).       *)
(***************************************************************************)
Response(code, hasErr, errMsg, errCode, hasExt, extMsg) ==
    [status_code |-> code, has_error |-> hasErr, err_msg |-> errMsg,
     err_code |-> errCode, has_ext |-> hasExt, ext_msg |-> extMsg]

PlainResponse(code) == Response(code, FALSE, {}, {}, FALSE, {})

\* _handle_status_code, lines 297-303: the message of the response.
ExtractMsg(response) ==
    IF response.has_error THEN response.err_msg
    ELSE IF response.has_ext THEN response.ext_msg
    ELSE {}

\* The handler _handle_status_code is given.  _update_in_progress_err_handler reads
\* ['error']['message'] only; reboot_cec.err_handler reads ['error']['code'].
RunStatusHandler(err_handler, response) ==
    LET msg == IF response.has_error THEN response.err_msg ELSE {}
        code == IF response.has_error THEN response.err_code ELSE {}
    IN  CASE err_handler = "update_in_progress" ->
               IF response.status_code = 400 /\ MsgInProgress \in msg
               THEN ErrMsg("ANOTHER_UPDATE_IS_IN_PROGRESS", {"Please try to update the firmware later"})
               ELSE NoOutcome
          [] err_handler = "reboot_cec" ->
               IF "ActionNotSupported" \in code
               THEN ErrMsg("NOT_SUPPORT_CEC_RESTART", {"Please use power cycle of the whole system instead"})
               ELSE IF "ResourceNotFound" \in code
               THEN ErrMsg("NO_PENDING_CEC_FW", {"Skip CEC reboot"})
               ELSE NoOutcome
          [] OTHER -> NoOutcome

\* A mutant of _handle_status_code: the optional handler is consulted before
\* the 401 cases.
HandleStatusCodeHandlerFirst(response, acceptable_codes, err_handler) ==
    IF response.status_code \in acceptable_codes THEN Ret("None")
    ELSE LET msg == ExtractMsg(response)
             h == RunStatusHandler(err_handler, response)
         IN  IF Raised(h) THEN h
             ELSE IF response.status_code = 401 /\ MsgLocked \in msg
             THEN ErrMsg("ACCOUNT_LOCKED", msg)
             ELSE IF response.status_code = 401 /\ MsgInvalid \in msg
             THEN ErrMsg("INVALID_USERNAME_OR_PASSWORD", msg)
             ELSE ErrMsg("INVALID_STATUS_CODE", msg)

\* _handle_status_code(response, acceptable_codes, err_handler)
HandleStatusCode(response, acceptable_codes, err_handler) ==
    IF response.status_code \in acceptable_codes THEN Ret("None")
    ELSE LET msg == ExtractMsg(response)
             h == RunStatusHandler(err_handler, response)
         IN  IF response.status_code = 401 /\ MsgLocked \in msg
             THEN ErrMsg("ACCOUNT_LOCKED", msg)
             ELSE IF response.status_code = 401 /\ MsgInvalid \in msg
             THEN ErrMsg("INVALID_USERNAME_OR_PASSWORD", msg)
             ELSE IF Raised(h) THEN h
             ELSE ErrMsg("INVALID_STATUS_CODE", msg)

(***************************************************************************)
(* The job (Redfish task) as _get_task_status reports it.                  *)
(***************************************************************************)
Percents == {0, 50, 100}

TaskMessages ==
    {{}, {MsgIdentical}, {MsgBgCopy}, {MsgIdentical, MsgBgCopy}, {MsgPubKey},
     {MsgIdentical, MsgPubKey}, {MsgWeb}, {MsgIdentical, MsgWeb}, {MsgBgCopy, MsgWeb},
     {MsgOther}}

NoSample == [state |-> "unbound", status |-> "unbound", percent |-> -1, message |-> {}]

\* The sample of a job that stays Running, as the workflows' controller reports it.
RunningSample == [state |-> "Running", status |-> "OK", percent |-> 50, message |-> {}]

IsSuccess(ts) == ts.state = "Completed" /\ ts.status = "OK" /\ ts.percent = 100

\* What one _get_task_status call gives: a sample, or the error it raises
\* (_handle_status_code on a status other than 200, or a body without the fields).
TaskReply(sample) == [raised |-> NoOutcome, sample |-> sample]

TaskReplyErrors ==
    {[raised |-> ErrMsg("INVALID_STATUS_CODE", {}), sample |-> NoSample],
     [raised |-> ErrMsg("BAD_RESPONSE_FORMAT", {"Failed to extract task status"}), sample |-> NoSample]}

SimpleUpdateErrHandler(protocol, task_state) ==
    IF protocol = "SCP" /\ MsgPubKey \in task_state.message
    THEN Err("PUBLIC_KEY_NOT_EXCHANGED")
    ELSE IF protocol = "HTTP" /\ MsgWeb \in task_state.message
    THEN ErrMsg("HTTP_FILE_SERVER_NOT_ACCESSIBLE", {"Server address"})
    ELSE NoOutcome

\* range(1, max_second//check_step + 1): the number of iterations.
LoopCount(max_second, check_step) == max_second \div check_step

\* Mutants of the classification after the loop (lines 982-997).
ClassifyMarkerFirst(task_state, err_handler) ==
    IF task_state = NoSample THEN Exc("UnboundLocalError")
    ELSE IF MsgIdentical \in task_state.message THEN Ret("False")
    ELSE IF IsSuccess(task_state) THEN Ret("True")
    ELSE IF task_state.state = "Running" THEN Err("TASK_TIMEOUT")
    ELSE LET h == SimpleUpdateErrHandler(err_handler, task_state)
         IN  IF Raised(h) THEN h
             ELSE IF MsgBgCopy \in task_state.message
             THEN ErrMsg("BMC_BACKGROUND_BUSY", {"Please try to update the firmware later"})
             ELSE ErrMsg("TASK_FAILED", task_state.message)

ClassifyNoBusy(task_state, err_handler) ==
    IF task_state = NoSample THEN Exc("UnboundLocalError")
    ELSE IF IsSuccess(task_state) THEN Ret("True")
    ELSE IF task_state.state = "Running" THEN Err("TASK_TIMEOUT")
    ELSE LET h == SimpleUpdateErrHandler(err_handler, task_state)
         IN  IF Raised(h) THEN h
             ELSE IF MsgIdentical \in task_state.message THEN Ret("False")
             ELSE ErrMsg("TASK_FAILED", task_state.message)

ClassifyBusyFirst(task_state, err_handler) ==
    IF task_state = NoSample THEN Exc("UnboundLocalError")
    ELSE IF IsSuccess(task_state) THEN Ret("True")
    ELSE IF task_state.state = "Running" THEN Err("TASK_TIMEOUT")
    ELSE LET h == SimpleUpdateErrHandler(err_handler, task_state)
         IN  IF Raised(h) THEN h
             ELSE IF MsgBgCopy \in task_state.message
             THEN ErrMsg("BMC_BACKGROUND_BUSY", {"Please try to update the firmware later"})
             ELSE IF MsgIdentical \in task_state.message THEN Ret("False")
             ELSE ErrMsg("TASK_FAILED", task_state.message)

\* _wait_task, lines 982-997: the outcome from the last sample taken.  With no
\* iteration of the loop task_state is unbound.
Classify(task_state, err_handler) ==
    IF task_state = NoSample THEN Exc("UnboundLocalError")
    ELSE IF IsSuccess(task_state) THEN Ret("True")
    ELSE IF task_state.state = "Running" THEN Err("TASK_TIMEOUT")
    ELSE LET h == SimpleUpdateErrHandler(err_handler, task_state)
         IN  IF Raised(h) THEN h
             ELSE IF MsgIdentical \in task_state.message THEN Ret("False")
             ELSE IF MsgBgCopy \in task_state.message
             THEN ErrMsg("BMC_BACKGROUND_BUSY", {"Please try to update the firmware later"})
             ELSE ErrMsg("TASK_FAILED", task_state.message)

\* The frame of _wait_task(task_handle, max_second, check_step, err_handler) on entry.
\* i counts the samples taken, elapsed the seconds slept; running_percents records
\* the percent values _print_process was given for the Running samples.
NewWaitTask(task_handle, max_second, check_step, err_handler) ==
    [pc |-> "loop", task_handle |-> task_handle, max_second |-> max_second,
     check_step |-> check_step, err_handler |-> err_handler, i |-> 0, elapsed |-> 0,
     task_state |-> NoSample, running_percents |-> {}, ret |-> NoOutcome]

\* The Running samples of a workflow's job that are followed one by one.
MaxPollsShown == 2

\* The samples the controller may give to this poll.  A workflow's job gives the
\* terminal samples below, and while it is still Running one fixed Running sample.
TaskRepliesFor(frame) ==
    IF frame.task_handle = "standalone"
    THEN {TaskReply(s) : s \in [state : {"Running", "Completed", "Exception"},
                                 status : {"OK", "Warning"},
                                 percent : Percents, message : TaskMessages]}
         \cup TaskReplyErrors
    ELSE {TaskReply(s) :
            s \in [state : {"Completed"}, status : {"OK"}, percent : {100},
                   message : {{}, {MsgIdentical}}]
                  \cup [state : {"Exception"}, status : {"Warning"}, percent : {50},
                        message : TaskMessages]
                  \cup (IF frame.i < MaxPollsShown THEN {RunningSample} ELSE {})}
         \cup TaskReplyErrors

\* One iteration of the loop, lines 975-980.
WaitTaskLoop ==
    /\ wt.pc = "loop"
    /\ wt.i < LoopCount(wt.max_second, wt.check_step)
    /\ \E reply \in TaskRepliesFor(wt) :
         IF Raised(reply.raised)
         THEN wt' = [wt EXCEPT !.pc = "done", !.ret = reply.raised]
         ELSE IF reply.sample.state # "Running"
         THEN wt' = [wt EXCEPT !.pc = "check", !.i = @ + 1, !.task_state = reply.sample]
         ELSE wt' = [wt EXCEPT !.i = @ + 1, !.task_state = reply.sample,
                               !.running_percents = @ \cup {reply.sample.percent},
                               !.elapsed = @ + wt.check_step]
    /\ UNCHANGED <<hs, gv, lg, mn, du, vc, hp, wf, ak, cm>>

\* The loop's range is exhausted.
WaitTaskLoopEnd ==
    /\ wt.pc = "loop"
    /\ wt.i >= LoopCount(wt.max_second, wt.check_step)
    /\ wt' = [wt EXCEPT !.pc = "check"]
    /\ UNCHANGED <<hs, gv, lg, mn, du, vc, hp, wf, ak, cm>>

\* The iterations of a workflow's poll whose job stays Running to the end of the
\* range, taken together: each one samples, prints and sleeps check_step.
WaitTaskRunOut ==
    /\ wt.pc = "loop"
    /\ wt.task_handle # "standalone"
    /\ wt.i < LoopCount(wt.max_second, wt.check_step)
    /\ wt' = [wt EXCEPT !.i = LoopCount(wt.max_second, wt.check_step),
                        !.task_state = RunningSample,
                        !.running_percents = @ \cup {RunningSample.percent},
                        !.elapsed = @ + (LoopCount(wt.max_second, wt.check_step) - wt.i) * wt.check_step]
    /\ UNCHANGED <<hs, gv, lg, mn, du, vc, hp, wf, ak, cm>>

\* Lines 982-997.
WaitTaskCheck ==
    /\ wt.pc = "check"
    /\ wt' = [wt EXCEPT !.pc = "done", !.ret = Classify(wt.task_state, wt.err_handler)]
    /\ UNCHANGED <<hs, gv, lg, mn, du, vc, hp, wf, ak, cm>>

(***************************************************************************)
(* _wait_task on its own, for every budget and step up to the bounds.      *)
(***************************************************************************)
MaxSecond == 6

MaxStep == 3

InitWaitTask ==
    /\ wt \in {NewWaitTask("standalone", m, s, h) :
                 m \in 0..MaxSecond, s \in 1..MaxStep, h \in {"None", "SCP", "HTTP"}}
    /\ hs = Idle /\ gv = Idle /\ lg = Idle /\ mn = Idle /\ du = Idle /\ vc = Idle
    /\ hp = Idle /\ wf = Idle /\ ak = Idle /\ cm = Idle

NextWaitTask == WaitTaskLoop \/ WaitTaskLoopEnd \/ WaitTaskCheck

SpecWaitTask == InitWaitTask /\ [][NextWaitTask]_vars

\* The poll itself failed: _get_task_status raised and _wait_task let it through.
PollFailed(frame) == frame.ret \in {r.raised : r \in TaskReplyErrors}

\* C1: when the last sample _wait_task took is Completed/OK/100 it returns True,
\* whatever the number and the percent values of the Running samples before it.
C1_CompletedReturnsTrue ==
    (wt.pc = "done" /\ IsSuccess(wt.task_state)) => wt.ret = Ret("True")

C1_Witness ==
    /\ wt.pc = "done" /\ IsSuccess(wt.task_state) /\ wt.ret = Ret("True")
    /\ wt.i >= 4 /\ wt.running_percents = Percents

\* C2 as claimed: whenever the last polled message has the identical-image marker
\* _wait_task returns False, whatever the state, status, percent and handler.
C2_MarkerAlwaysFalse ==
    (wt.pc = "done" /\ ~PollFailed(wt) /\ MsgIdentical \in wt.task_state.message)
        => wt.ret = Ret("False")

\* C2 amended: the marker yields False when the last sample is terminal, is not
\* Completed/OK/100, and the supplied handler raises nothing for it.
C2_MarkerFalseWhenTerminal ==
    (/\ wt.pc = "done" /\ ~PollFailed(wt)
     /\ MsgIdentical \in wt.task_state.message
     /\ wt.task_state.state # "Running"
     /\ ~IsSuccess(wt.task_state)
     /\ ~Raised(SimpleUpdateErrHandler(wt.err_handler, wt.task_state)))
        => wt.ret = Ret("False")

C2_Witness ==
    /\ wt.pc = "done" /\ wt.ret = Ret("False")
    /\ wt.task_state.message = {MsgIdentical, MsgBgCopy}
    /\ wt.task_state.state = "Completed" /\ wt.task_state.percent = 100
    /\ wt.err_handler = "SCP" /\ wt.i >= 2

\* C3: a job that stays Running gets TASK_TIMEOUT exactly when max_second seconds
\* of polling have elapsed, not before, for every max_second and check_step.
C3_TimeoutExactlyAtMax ==
    (wt.pc = "done" /\ wt.ret = Err("TASK_TIMEOUT")) => wt.elapsed = wt.max_second

\* The last sample is terminal and is not Completed/OK/100.
C21_Failed ==
    /\ wt.pc = "done" /\ ~PollFailed(wt) /\ wt.task_state # NoSample
    /\ wt.task_state.state # "Running" /\ ~IsSuccess(wt.task_state)

C21_Busy == ErrMsg("BMC_BACKGROUND_BUSY", {"Please try to update the firmware later"})

\* C21 as claimed: a failed terminal sample whose message has the background-copy
\* marker raises BMC_BACKGROUND_BUSY; without that marker, when the handler does
\* not translate it and the identical-image marker is absent, it raises
\* TASK_FAILED carrying the message.
C21_BusyWheneverMarked ==
    C21_Failed =>
        IF MsgBgCopy \in wt.task_state.message THEN wt.ret = C21_Busy
        ELSE (/\ ~Raised(SimpleUpdateErrHandler(wt.err_handler, wt.task_state))
              /\ MsgIdentical \notin wt.task_state.message)
                 => wt.ret = ErrMsg("TASK_FAILED", wt.task_state.message)

\* C21 amended: when the handler does not translate the failed terminal sample
\* and its message has no identical-image marker, _wait_task raises
\* BMC_BACKGROUND_BUSY if the message has the background-copy marker and
\* TASK_FAILED carrying the message otherwise.
C21_BusyAfterHandlerAndIdentical ==
    (/\ C21_Failed
     /\ ~Raised(SimpleUpdateErrHandler(wt.err_handler, wt.task_state))
     /\ MsgIdentical \notin wt.task_state.message)
        => IF MsgBgCopy \in wt.task_state.message THEN wt.ret = C21_Busy
           ELSE wt.ret = ErrMsg("TASK_FAILED", wt.task_state.message)

C21_Witness ==
    /\ C21_Failed /\ wt.ret = C21_Busy
    /\ wt.task_state.message = {MsgBgCopy, MsgWeb} /\ wt.err_handler = "SCP"
    /\ wt.i >= 2

(***************************************************************************)
(* _handle_status_code on its own.                                         *)
(***************************************************************************)
Responses ==
    LET codes == {200, 202, 204, 400, 401, 404, 500}
        error_messages == {{}, {MsgLocked}, {MsgInvalid}, {MsgLocked, MsgInvalid},
                           {MsgInProgress}, {MsgOther}}
        error_codes == {{}, {"ActionNotSupported"}, {"ResourceNotFound"}}
        ext_messages == {{}, {MsgLocked}, {MsgInvalid}, {MsgOther}}
    IN  {Response(c, TRUE, em, k, FALSE, {}) : c \in codes, em \in error_messages, k \in error_codes}
        \cup {Response(c, FALSE, {}, {}, TRUE, x) : c \in codes, x \in ext_messages}
        \cup {Response(c, TRUE, em, {}, TRUE, x) : c \in {400, 401}, em \in error_messages, x \in ext_messages}
        \cup {PlainResponse(c) : c \in codes}

InitStatus ==
    /\ hs \in [pc : {"call"}, response : Responses,
               acceptable_codes : {{200}, {100, 200, 202}, {200, 204}, {200, 401}},
               err_handler : {"None", "update_in_progress", "reboot_cec"}, ret : {NoOutcome}]
    /\ wt = Idle /\ gv = Idle /\ lg = Idle /\ mn = Idle /\ du = Idle /\ vc = Idle
    /\ hp = Idle /\ wf = Idle /\ ak = Idle /\ cm = Idle

HandleStatusApply ==
    /\ hs.pc = "call"
    /\ hs' = [hs EXCEPT !.pc = "done",
                        !.ret = HandleStatusCode(hs.response, hs.acceptable_codes, hs.err_handler)]
    /\ UNCHANGED <<wt, gv, lg, mn, du, vc, hp, wf, ak, cm>>

NextStatus == HandleStatusApply

SpecStatus == InitStatus /\ [][NextStatus]_vars

\* The message the claim describes: the first body shape, else the second, else ''.
C9_Message(response) ==
    IF response.has_error THEN response.err_msg
    ELSE IF response.has_ext THEN response.ext_msg ELSE {}

\* C9: _handle_status_code returns normally iff the status is acceptable; otherwise
\* it raises ACCOUNT_LOCKED / INVALID_USERNAME_OR_PASSWORD for the two 401 messages,
\* else the handler's error if the handler raises one, else INVALID_STATUS_CODE.
C9_StatusClassification ==
    hs.pc = "done" =>
        LET r == hs.response
            m == C9_Message(r)
            h == RunStatusHandler(hs.err_handler, r)
        IN  /\ (hs.ret.kind = "return") <=> (r.status_code \in hs.acceptable_codes)
            /\ hs.ret.kind \in {"return", "Err_Exception"}
            /\ r.status_code \notin hs.acceptable_codes =>
                 /\ (r.status_code = 401 /\ MsgLocked \in m) => hs.ret.val = "ACCOUNT_LOCKED"
                 /\ (r.status_code = 401 /\ MsgLocked \notin m /\ MsgInvalid \in m)
                        => hs.ret.val = "INVALID_USERNAME_OR_PASSWORD"
                 /\ (~(r.status_code = 401 /\ (MsgLocked \in m \/ MsgInvalid \in m)) /\ Raised(h))
                        => hs.ret = h
                 /\ (~(r.status_code = 401 /\ (MsgLocked \in m \/ MsgInvalid \in m)) /\ ~Raised(h))
                        => (hs.ret.val = "INVALID_STATUS_CODE" /\ hs.ret.msg = m)
                 /\ (~r.has_error /\ ~r.has_ext /\ hs.ret.val = "INVALID_STATUS_CODE")
                        => hs.ret.msg = {}

C9_Witness ==
    /\ hs.pc = "done" /\ hs.response.status_code = 401
    /\ hs.err_handler = "reboot_cec" /\ "ActionNotSupported" \in hs.response.err_code
    /\ hs.ret.val = "ACCOUNT_LOCKED"

(***************************************************************************)
(* get_ver(module, num_of_tries=3) on its own.                             *)
(***************************************************************************)
\* The keys of module_resource, lines 24-37.
ModuleResource ==
    {"BMC", "CEC", "ATF", "UEFI", "BSP", "NIC", "NODE", "OFED", "OS", "SYS_IMAGE",
     "CONF_IMAGE", "BOARD"}

\* What the controller answers to one firmware-inventory read: the transport
\* raises, or a response arrives, with or without a Version field.
VerReplies ==
    {[conn_failed |-> TRUE, response |-> PlainResponse(200), has_version |-> FALSE, version |-> ""]}
    \cup {[conn_failed |-> FALSE, response |-> r, has_version |-> FALSE, version |-> ""] :
            r \in {PlainResponse(200), PlainResponse(404),
                   Response(401, TRUE, {MsgLocked}, {}, FALSE, {})}}
    \cup {[conn_failed |-> FALSE, response |-> PlainResponse(200), has_version |-> TRUE, version |-> v] :
            v \in {"", "BF-24.10-33", "BF-23.07-1"}}

\* get_ver_by_uri, lines 318-330.
GetVerByUri(reply) ==
    IF reply.conn_failed THEN Err("BMC_CONNECTION_FAIL")
    ELSE LET h == HandleStatusCode(reply.response, {200}, "None")
         IN  IF Raised(h) THEN h
             ELSE IF ~reply.has_version
             THEN ErrMsg("BAD_RESPONSE_FORMAT", {"Failed to extract firmware version"})
             ELSE Ret(reply.version)

\* _get_ver, lines 333-334: module_resource[module] raises KeyError for an unknown module.
GetVerOnce(module, reply) ==
    IF module \notin ModuleResource THEN Exc("KeyError") ELSE GetVerByUri(reply)

\* time.sleep(4), line 345.
GetVerBackoff == 4

\* num_of_tries=3, line 337.
DefaultTries == 3

\* The frame of get_ver on entry.  attempts counts the _get_ver calls, failures
\* those that raised, slept the seconds slept; first_ok is the first version read.
NewGetVer(module, num_of_tries) ==
    [pc |-> "try", module |-> module, num_of_tries |-> num_of_tries, i |-> 0,
     attempts |-> 0, failures |-> 0, slept |-> 0, any_ok |-> FALSE, first_ok |-> "",
     ret |-> NoOutcome]

\* A mutant of the loop body: the version read is kept and the loop goes on.
GetVerBodyNoReturn(frame, outcome) ==
    IF outcome.kind = "return"
    THEN [frame EXCEPT !.i = @ + 1, !.attempts = @ + 1, !.ret = outcome,
                       !.first_ok = IF frame.any_ok THEN @ ELSE outcome.val, !.any_ok = TRUE]
    ELSE [frame EXCEPT !.i = @ + 1, !.attempts = @ + 1, !.failures = @ + 1,
                       !.slept = @ + GetVerBackoff]

\* The loop body, lines 339-345, given what _get_ver did.
GetVerBody(frame, outcome) ==
    IF outcome.kind = "return"
    THEN [frame EXCEPT !.pc = "done", !.attempts = @ + 1, !.ret = outcome,
                       !.first_ok = outcome.val, !.any_ok = TRUE]
    ELSE [frame EXCEPT !.i = @ + 1, !.attempts = @ + 1, !.failures = @ + 1,
                       !.slept = @ + GetVerBackoff]

GetVerAttempt ==
    /\ gv.pc = "try"
    /\ gv.i < gv.num_of_tries
    /\ \E reply \in VerReplies : gv' = GetVerBody(gv, GetVerOnce(gv.module, reply))
    /\ UNCHANGED <<wt, hs, lg, mn, du, vc, hp, wf, ak, cm>>

\* Line 346: the range is exhausted.
GetVerExhausted ==
    /\ gv.pc = "try"
    /\ gv.i >= gv.num_of_tries
    /\ gv' = [gv EXCEPT !.pc = "done", !.ret = Ret("")]
    /\ UNCHANGED <<wt, hs, lg, mn, du, vc, hp, wf, ak, cm>>

InitGetVer ==
    /\ gv \in {NewGetVer(m, DefaultTries) : m \in ModuleResource \cup {"FRU"}}
    /\ wt = Idle /\ hs = Idle /\ lg = Idle /\ mn = Idle /\ du = Idle /\ vc = Idle
    /\ hp = Idle /\ wf = Idle /\ ak = Idle /\ cm = Idle

NextGetVer == GetVerAttempt \/ GetVerExhausted

SpecGetVer == InitGetVer /\ [][NextGetVer]_vars

\* C10: get_ver never raises, makes at most 3 attempts with a 4 s backoff after each
\* failed one, returns the first version read without further attempts, and returns
\* '' when all 3 attempts fail.
C10_GetVerRetry ==
    /\ gv.pc # "idle" => (gv.attempts <= 3 /\ gv.slept = 4 * gv.failures)
    /\ gv.pc = "done" =>
         /\ gv.ret.kind = "return"
         /\ gv.any_ok => (gv.ret.val = gv.first_ok /\ gv.attempts = gv.failures + 1)
         /\ ~gv.any_ok => (gv.ret = Ret("") /\ gv.attempts = 3 /\ gv.failures = 3)

C10_Witness ==
    /\ gv.pc = "done" /\ gv.failures = 2 /\ gv.attempts = 3
    /\ gv.ret = Ret("BF-24.10-33") /\ gv.slept = 8

(***************************************************************************)
(* log(msg): the text written to the console and the transcript.  Texts    *)
(* are sequences of one-character strings.                                 *)
(***************************************************************************)
\* s has pat at position i.
MatchesAt(s, pat, i) ==
    /\ i + Len(pat) - 1 <= Len(s)
    /\ \A k \in 1..Len(pat) : s[i + k - 1] = pat[k]

\* The text from position i on with the occurrences of old replaced: up to the next
\* occurrence the text is kept, the occurrence becomes new, and the scan goes on
\* behind it.
RECURSIVE ReplaceFrom(_, _, _, _)
ReplaceFrom(s, old, new, i) ==
    LET found == {j \in i..Len(s) : MatchesAt(s, old, j)}
    IN  IF found = {} THEN SubSeq(s, i, Len(s))
        ELSE LET j == CHOOSE j \in found : \A k \in found : j <= k
             IN  SubSeq(s, i, j - 1) \o new \o ReplaceFrom(s, old, new, j + Len(old))

RECURSIVE Interleave(_, _, _)
Interleave(s, new, i) ==
    IF i > Len(s) THEN new ELSE new \o <<s[i]>> \o Interleave(s, new, i + 1)

\* Python's str.replace(old, new): the occurrences of old, leftmost first and not
\* overlapping; an empty old matches before every character and at the end.
Replace(s, old, new) ==
    IF old = <<>> THEN Interleave(s, new, 1) ELSE ReplaceFrom(s, old, new, 1)

Occurs(pat, s) == \E i \in 1..Len(s) : MatchesAt(s, pat, i)

\* log, lines 264-284, for resp = None: the framed message with the four
\* replacements applied in the code's order.
LogData(msg, username, password, ssh_username, ssh_password) ==
    LET d0 == <<"[", "=", "=", "=", "=", "=", "=", "=", "=", " ">> \o msg
              \o <<" ", "=", "=", "=", "=", "=", "=", "=", "=", "]", ":", " ", "\n">>
        d1 == Replace(d0, password, <<"<", "p", "a", "s", "s", "w", "o", "r", "d", ">">>)
        d2 == Replace(d1, username, <<"<", "u", "s", "e", "r", "n", "a", "m", "e", ">">>)
        d3 == IF ssh_password # <<>>
              THEN Replace(d2, ssh_password,
                           <<"<", "s", "s", "h", "_", "p", "a", "s", "s", "w", "o", "r", "d", ">">>)
              ELSE d2
        d4 == IF ssh_username # <<>>
              THEN Replace(d3, ssh_username,
                           <<"<", "s", "s", "h", "_", "u", "s", "e", "r", "n", "a", "m", "e", ">">>)
              ELSE d3
    IN  d4

MaxMsgLen == 3

InitLog ==
    /\ lg \in [pc : {"call"},
               msg : UNION {[1..n -> {"x", "y", "-"}] : n \in 0..MaxMsgLen}
                     \cup {<<"u", "s", "e", "r">>, <<"n", "a", "m", "e">>},
               username : {<<"x">>, <<"x", "y">>, <<"u", "s", "e", "r">>},
               password : {<<"y">>, <<"x", "y">>, <<"x", "x">>, <<"n", "a", "m", "e">>},
               ssh_username : {<<>>, <<"x">>, <<"y", "x">>},
               ssh_password : {<<>>, <<"y">>, <<"x", "x", "y">>, <<"u", "s", "e", "r">>},
               data : {<<>>}]
    /\ wt = Idle /\ hs = Idle /\ gv = Idle /\ mn = Idle /\ du = Idle /\ vc = Idle
    /\ hp = Idle /\ wf = Idle /\ ak = Idle /\ cm = Idle

Log ==
    /\ lg.pc = "call"
    /\ lg' = [lg EXCEPT !.pc = "done",
                        !.data = LogData(lg.msg, lg.username, lg.password,
                                         lg.ssh_username, lg.ssh_password)]
    /\ UNCHANGED <<wt, hs, gv, mn, du, vc, hp, wf, ak, cm>>

NextLog == Log

SpecLog == InitLog /\ [][NextLog]_vars

\* C8: the text log() writes contains no literal occurrence of any of the four
\* credential strings.
C8_NoCredentialInLog ==
    lg.pc = "done" =>
        \A c \in {lg.username, lg.password, lg.ssh_username, lg.ssh_password} :
            c # <<>> => ~Occurs(c, lg.data)

(***************************************************************************)
(* main() of OobUpdate.py.                                                 *)
(***************************************************************************)
\* The members of Err_Num that the sources name.
ErrNumNames ==
    {"ACCOUNT_LOCKED", "ANOTHER_UPDATE_IS_IN_PROGRESS", "BAD_RESPONSE_FORMAT",
     "BMC_BACKGROUND_BUSY", "BMC_CONNECTION_FAIL", "BMC_CONNECTION_RESET", "BMC_IP_NOT_GIVEN",
     "EMPTY_FW_VER", "FAILED_TO_ENABLE_BMC_RSHIM", "FAILED_TO_GET_LOCAL_KEY",
     "FAILED_TO_GET_VER_FROM_FILE", "FAILED_TO_START_HTTP_SERVER", "FILE_NOT_ACCESSIBLE",
     "FRU_NOT_GIVEN", "FW_FILE_NOT_GIVEN", "FW_FILE_NOT_MATCH_MODULE",
     "HTTP_FILE_SERVER_NOT_ACCESSIBLE", "INVALID_BMC_ADDRESS", "INVALID_INPUT_PARAMETER",
     "INVALID_STATUS_CODE", "INVALID_USERNAME_OR_PASSWORD", "MODULE_NOT_GIVEN",
     "NEW_VERION_CHECK_FAILED", "NOT_SUPPORT_CEC_RESTART", "NOT_SUPPORT_SIMPLE_UPDATE_PROTOCOL",
     "NO_PENDING_CEC_FW", "OTHER_EXCEPTION", "PASSWORD_NOT_GIVEN", "PUBLIC_KEY_NOT_EXCHANGED",
     "PUSH_URI_NOT_FOUND", "TASK_FAILED", "TASK_TIMEOUT", "UNSUPPORTED_MODULE",
     "UPDATE_SERVICE_NOT_READY", "USERNAME_NOT_GIVEN"}

\* Python binds the constructor call iff every parameter without a default gets an
\* argument: the parameters of BF_DPU_Update.__init__ that have no default (line 40),
\* the positional arguments of main's call (lines 127-136) and its keyword arguments
\* (lines 137-138).
ConstructorBinds ==
    LET required == <<"bmc_ip", "bmc_port", "username", "password", "ssh_username",
                      "ssh_password", "fw_file_path", "task_dir", "module", "oem_fru",
                      "skip_same_version">>
        positional == <<"args.bmc_ip", "args.bmc_port", "args.username", "args.password",
                        "new_fw_file_path", "args.module", "args.oem_fru",
                        "args.skip_same_version", "args.debug", "args.output_file">>
        keywords == {"bfb_update_protocol", "use_curl"}
    IN  \A k \in 1..Len(required) : k <= Len(positional) \/ required[k] \in keywords

\* The command lines: an option is absent, given empty, or given.
InitMain ==
    /\ mn \in [pc : {"parse"}, rc : {"none"}, performed : {"none"},
               args : [show_version : BOOLEAN, username : {"absent", "empty", "given"},
                       password : {"absent", "empty", "given"}, ssh_given : BOOLEAN,
                       bmc_ip : {"absent", "empty", "given"},
                       module : {"None", "BMC", "FRU"}, fw_file_path : BOOLEAN,
                       clear_config : BOOLEAN, oem_fru : BOOLEAN, config_file : BOOLEAN,
                       show_all_versions : BOOLEAN]]
    /\ wt = Idle /\ hs = Idle /\ gv = Idle /\ lg = Idle /\ du = Idle /\ vc = Idle
    /\ hp = Idle /\ wf = Idle /\ ak = Idle /\ cm = Idle

\* parser.parse_args(), lines 23-26 and 92: -U, -P, -S and -K are required; argparse
\* ends the process with status 2 when one is absent.
MainParseArgs ==
    /\ mn.pc = "parse"
    /\ IF mn.args.username = "absent" \/ mn.args.password = "absent" \/ ~mn.args.ssh_given
       THEN mn' = [mn EXCEPT !.pc = "done", !.rc = "2"]
       ELSE mn' = [mn EXCEPT !.pc = "checks"]
    /\ UNCHANGED <<wt, hs, gv, lg, du, vc, hp, wf, ak, cm>>

\* Lines 94-106.
MainChecks ==
    /\ mn.pc = "checks"
    /\ IF mn.args.show_version
       THEN mn' = [mn EXCEPT !.pc = "done", !.rc = "0", !.performed = "show_version"]
       ELSE IF ~(mn.args.username = "given" /\ mn.args.password = "given" /\ mn.args.bmc_ip = "given")
       THEN mn' = [mn EXCEPT !.pc = "done", !.rc = "0"]
       ELSE IF mn.args.module # "None"
               /\ ~(mn.args.fw_file_path \/ mn.args.clear_config \/ mn.args.oem_fru)
       THEN mn' = [mn EXCEPT !.pc = "done", !.rc = "0"]
       ELSE mn' = [mn EXCEPT !.pc = "construct"]
    /\ UNCHANGED <<wt, hs, gv, lg, du, vc, hp, wf, ak, cm>>

\* Lines 126-138 and 174-179: the constructor call does not bind (ten positional
\* arguments for eleven parameters without a default), Python raises TypeError in
\* the try block and the handler of Exception returns OTHER_EXCEPTION's value.
\* No statement after the call (lines 140-166) is reached.
MainConstruct ==
    /\ mn.pc = "construct"
    /\ ~ConstructorBinds
    /\ mn' = [mn EXCEPT !.pc = "done", !.rc = "OTHER_EXCEPTION"]
    /\ UNCHANGED <<wt, hs, gv, lg, du, vc, hp, wf, ak, cm>>

NextMain == MainParseArgs \/ MainChecks \/ MainConstruct

SpecMain == InitMain /\ [][NextMain]_vars

\* C7: main returns 0 if and only if the requested operation succeeded; every
\* failure, a missing -H or -T without -F/-C/-s included, gives a non-zero status.
C7_ZeroIffSucceeded ==
    mn.pc = "done" => ((mn.rc = "0") <=> (mn.performed # "none"))

(***************************************************************************)
(* BMC version strings: _parse_bmc_version, _compare_bmc_versions and the  *)
(* event-log clear check.  TextOf gives the characters of a version.       *)
(***************************************************************************)
TextOf(v) ==
    CASE v = "BF-24.10-33" -> <<"B", "F", "-", "2", "4", ".", "1", "0", "-", "3", "3">>
      [] v = "BF-23.07-1" -> <<"B", "F", "-", "2", "3", ".", "0", "7", "-", "1">>
      [] OTHER -> <<>>

\* int(text) succeeds on a non-empty run of digits (the texts of the model hold
\* digits, letters, '.' and '-' only).
IsInt(p) == Len(p) > 0 /\ \A k \in 1..Len(p) : p[k] \in {"0", "1", "2", "3", "4", "5", "6", "7", "8", "9"}

RECURSIVE IntOf(_)
IntOf(p) ==
    LET c == p[Len(p)]
        digit == CASE c = "0" -> 0 [] c = "1" -> 1 [] c = "2" -> 2 [] c = "3" -> 3 [] c = "4" -> 4
                   [] c = "5" -> 5 [] c = "6" -> 6 [] c = "7" -> 7 [] c = "8" -> 8 [] c = "9" -> 9
    IN  IF p = <<>> THEN 0 ELSE IntOf(SubSeq(p, 1, Len(p) - 1)) * 10 + digit

\* str.split(sep) for a one-character sep.
RECURSIVE SplitFrom(_, _, _, _)
SplitFrom(s, sep, i, cur) ==
    IF i > Len(s) THEN <<cur>>
    ELSE IF s[i] = sep THEN <<cur>> \o SplitFrom(s, sep, i + 1, <<>>)
    ELSE SplitFrom(s, sep, i + 1, Append(cur, s[i]))

Split(s, sep) == SplitFrom(s, sep, 1, <<>>)

\* A value passed as a version: a str with its characters, or a value of another
\* type (None, a number).
Str(text) == [is_str |-> TRUE, text |-> text]

\* A mutant of _parse_bmc_version: the vendor prefix is left in place.
ParseBmcVersionKeepPrefix(version_str) ==
    IF ~version_str.is_str \/ version_str.text = <<>> THEN <<0, 0, 0>>
    ELSE LET version == version_str.text
             parts == Split(Replace(version, <<"-">>, <<".">>), ".")
         IN  IF Len(parts) >= 3 /\ IsInt(parts[1]) /\ IsInt(parts[2]) /\ IsInt(parts[3])
             THEN <<IntOf(parts[1]), IntOf(parts[2]), IntOf(parts[3])>>
             ELSE <<0, 0, 0>>

\* _parse_bmc_version, lines 766-788.
ParseBmcVersion(version_str) ==
    IF ~version_str.is_str \/ version_str.text = <<>> THEN <<0, 0, 0>>
    ELSE LET version == Replace(version_str.text, <<"B", "F", "-">>, <<>>)
             parts == Split(Replace(version, <<"-">>, <<".">>), ".")
         IN  IF Len(parts) >= 3 /\ IsInt(parts[1]) /\ IsInt(parts[2]) /\ IsInt(parts[3])
             THEN <<IntOf(parts[1]), IntOf(parts[2]), IntOf(parts[3])>>
             ELSE <<0, 0, 0>>

\* A mutant of _compare_bmc_versions: the patch level is not compared.
CompareBmcVersionsNoPatch(version1, version2) ==
    LET v1 == ParseBmcVersion(version1)
        v2 == ParseBmcVersion(version2)
        TupleLess(a, b) == \/ a[1] < b[1]
                           \/ a[1] = b[1] /\ a[2] < b[2]
    IN  IF TupleLess(v1, v2) THEN -1 ELSE IF TupleLess(v2, v1) THEN 1 ELSE 0

\* _compare_bmc_versions, lines 791-807, with Python's order on tuples of three
\* integers.
CompareBmcVersions(version1, version2) ==
    LET v1 == ParseBmcVersion(version1)
        v2 == ParseBmcVersion(version2)
        TupleLess(a, b) == \/ a[1] < b[1]
                           \/ a[1] = b[1] /\ a[2] < b[2]
                           \/ a[1] = b[1] /\ a[2] = b[2] /\ a[3] < b[3]
    IN  IF TupleLess(v1, v2) THEN -1 ELSE IF TupleLess(v2, v1) THEN 1 ELSE 0

\* A mutant of _check_and_clear_sel_if_needed: the downgrade branch is missing.
ClearSelOnUpgradeOnly(old_version, new_version) ==
    LET threshold_version == Str(<<"B", "F", "-", "2", "4", ".", "1", "0", "-", "3", "3">>)
        old_vs_threshold == CompareBmcVersions(old_version, threshold_version)
        new_vs_threshold == CompareBmcVersions(new_version, threshold_version)
    IN  old_vs_threshold < 0 /\ new_vs_threshold >= 0

\* _check_and_clear_sel_if_needed, lines 840-850: whether clear_sel_log is called.
ClearSelNeeded(old_version, new_version) ==
    LET threshold_version == Str(<<"B", "F", "-", "2", "4", ".", "1", "0", "-", "3", "3">>)
        old_vs_threshold == CompareBmcVersions(old_version, threshold_version)
        new_vs_threshold == CompareBmcVersions(new_version, threshold_version)
    IN  \/ old_vs_threshold < 0 /\ new_vs_threshold >= 0
        \/ old_vs_threshold >= 0 /\ new_vs_threshold < 0

\* _check_and_clear_sel_if_needed with clear_sel_log, lines 810-828: the request
\* sent; a failure of the request is swallowed.
SelRequests(old_version, new_version) ==
    IF ClearSelNeeded(old_version, new_version) THEN <<"LogService.ClearLog">> ELSE <<>>

(***************************************************************************)
(* The version functions on their own.                                     *)
(***************************************************************************)
\* Version texts around the threshold, as '[BF-]<major>.<minor>-<patch><tail>': a
\* component is a text with its value, -1 when int() rejects the text.
VersionShapes ==
    [prefix : BOOLEAN,
     major : {[txt |-> <<"2", "3">>, val |-> 23], [txt |-> <<"2", "4">>, val |-> 24],
              [txt |-> <<"2", "a">>, val |-> -1]},
     minor : {[txt |-> <<"9">>, val |-> 9], [txt |-> <<"1", "0">>, val |-> 10],
              [txt |-> <<>>, val |-> -1]},
     patch : {[txt |-> <<"3", "2">>, val |-> 32], [txt |-> <<"3", "3">>, val |-> 33],
              [txt |-> <<"0", "3", "4">>, val |-> 34]},
     tail : {<<>>, <<"-", "r", "c">>, <<"x">>}]

ShapeText(s) ==
    (IF s.prefix THEN <<"B", "F", "-">> ELSE <<>>)
    \o s.major.txt \o <<".">> \o s.minor.txt \o <<"-">> \o s.patch.txt \o s.tail

MaxVerLen == 2

\* The values a version function is applied to: the shaped texts, every short text
\* over three characters, and a value that is not a str.
Versions ==
    {Str(ShapeText(s)) : s \in VersionShapes}
    \cup {Str(t) : t \in UNION {[1..n -> {"1", ".", "-"}] : n \in 0..MaxVerLen}}
    \cup {[is_str |-> FALSE, text |-> <<>>]}

InitVersion ==
    /\ vc \in [pc : {"call"}, op : {"none"}, version1 : Versions, version2 : Versions,
               result : {"none"}]
    /\ wt = Idle /\ hs = Idle /\ gv = Idle /\ lg = Idle /\ mn = Idle /\ du = Idle
    /\ hp = Idle /\ wf = Idle /\ ak = Idle /\ cm = Idle

ParseVersion ==
    /\ vc.pc = "call"
    /\ vc' = [vc EXCEPT !.pc = "done", !.op = "parse",
                        !.result = ParseBmcVersion(vc.version1)]
    /\ UNCHANGED <<wt, hs, gv, lg, mn, du, hp, wf, ak, cm>>

CompareVersions ==
    /\ vc.pc = "call"
    /\ vc' = [vc EXCEPT !.pc = "done", !.op = "compare",
                        !.result = CompareBmcVersions(vc.version1, vc.version2)]
    /\ UNCHANGED <<wt, hs, gv, lg, mn, du, hp, wf, ak, cm>>

\* version1 is the old version, version2 the new one; the result is the requests sent.
CheckAndClearSelIfNeeded ==
    /\ vc.pc = "call"
    /\ vc' = [vc EXCEPT !.pc = "done", !.op = "check_and_clear_sel",
                        !.result = SelRequests(vc.version1, vc.version2)]
    /\ UNCHANGED <<wt, hs, gv, lg, mn, du, hp, wf, ak, cm>>

NextVersion == ParseVersion \/ CompareVersions \/ CheckAndClearSelIfNeeded

SpecVersion == InitVersion /\ [][NextVersion]_vars

\* The shape a version value was built from, if any.
C12_Shapes(v) == {s \in VersionShapes : v = Str(ShapeText(s))}

\* The (major, minor, patch) a value stands for: the values of the first three
\* components when the three are integers, components after the third being
\* ignored; (0,0,0) otherwise.  A text shorter than five characters has no three
\* non-empty components.
C12_Tuple(v) ==
    IF C12_Shapes(v) = {} THEN <<0, 0, 0>>
    ELSE LET s == CHOOSE x \in C12_Shapes(v) : TRUE
         IN  IF s.major.val < 0 \/ s.minor.val < 0 \/ s.patch.val < 0 \/ s.tail = <<"x">>
             THEN <<0, 0, 0>>
             ELSE <<s.major.val, s.minor.val, s.patch.val>>

\* -1, 0 or 1: the sign of the lexicographic comparison of two tuples.
C13_Sign(a, b) ==
    IF a[1] # b[1] THEN (IF a[1] < b[1] THEN -1 ELSE 1)
    ELSE IF a[2] # b[2] THEN (IF a[2] < b[2] THEN -1 ELSE 1)
    ELSE IF a[3] # b[3] THEN (IF a[3] < b[3] THEN -1 ELSE 1)
    ELSE 0

\* C11: _check_and_clear_sel_if_needed(old, new) sends the event-log clear if and
\* only if exactly one of old and new lies strictly below (24, 10, 33) in tuple
\* order, a version equal to the threshold counting as not below.
C11_ClearIffCrossing ==
    (vc.pc = "done" /\ vc.op = "check_and_clear_sel") =>
        LET old_below == C13_Sign(C12_Tuple(vc.version1), <<24, 10, 33>>) = -1
            new_below == C13_Sign(C12_Tuple(vc.version2), <<24, 10, 33>>) = -1
        IN  /\ vc.result \in {<<>>, <<"LogService.ClearLog">>}
            /\ vc.result = <<"LogService.ClearLog">> <=> (old_below # new_below)

\* A downgrade from the threshold itself to a version below it clears the log.
C11_Witness ==
    /\ vc.pc = "done" /\ vc.op = "check_and_clear_sel"
    /\ vc.version1 = Str(<<"B", "F", "-", "2", "4", ".", "1", "0", "-", "3", "3">>)
    /\ vc.version2 = Str(<<"B", "F", "-", "2", "4", ".", "1", "0", "-", "3", "2">>)
    /\ vc.result = <<"LogService.ClearLog">>

\* C12 as claimed: every malformed version (empty, not a str, fewer than three
\* components, a non-integer component, anything after the patch) parses to
\* (0,0,0), and 'BF-<major>.<minor>-<patch>' parses to (major, minor, patch).
C12_MalformedToSentinel ==
    (vc.pc = "done" /\ vc.op = "parse") =>
        LET shapes == C12_Shapes(vc.version1)
            s == CHOOSE x \in shapes : TRUE
        IN  IF shapes = {} THEN vc.result = <<0, 0, 0>>
            ELSE IF s.major.val < 0 \/ s.minor.val < 0 \/ s.patch.val < 0 \/ s.tail # <<>>
            THEN vc.result = <<0, 0, 0>>
            ELSE vc.result = <<s.major.val, s.minor.val, s.patch.val>>

\* C12 amended: a version that is empty, not a str, has fewer than three components
\* or has a non-integer among its first three components parses to (0,0,0); every
\* other version parses to its first three components, whatever follows them, so
\* 'BF-<major>.<minor>-<patch>' parses to (major, minor, patch).
C12_FirstThreeComponents ==
    (vc.pc = "done" /\ vc.op = "parse") => vc.result = C12_Tuple(vc.version1)

\* The documented example, with the prefix and a leading zero in the patch.
C12_Witness ==
    /\ vc.pc = "done" /\ vc.op = "parse"
    /\ vc.version1 = Str(<<"B", "F", "-", "2", "4", ".", "1", "0", "-", "0", "3", "4">>)
    /\ vc.result = <<24, 10, 34>>

\* C13: _compare_bmc_versions(v, v) = 0; _compare_bmc_versions(a, b) is the
\* opposite of _compare_bmc_versions(b, a); the result is the sign of the
\* lexicographic comparison of the parsed tuples.
C13_CompareIsTupleOrder ==
    (vc.pc = "done" /\ vc.op = "compare") =>
        /\ vc.result \in {-1, 0, 1}
        /\ vc.result = C13_Sign(C12_Tuple(vc.version1), C12_Tuple(vc.version2))
        /\ vc.result = -CompareBmcVersions(vc.version2, vc.version1)
        /\ vc.version1 = vc.version2 => vc.result = 0

\* Two versions that differ in the patch level only.
C13_Witness ==
    /\ vc.pc = "done" /\ vc.op = "compare"
    /\ vc.version1 = Str(<<"2", "4", ".", "1", "0", "-", "3", "2">>)
    /\ vc.version2 = Str(<<"B", "F", "-", "2", "4", ".", "1", "0", "-", "3", "3">>)
    /\ vc.result = -1

(***************************************************************************)
(* do_update and the six module workflows.                                 *)
(*                                                                         *)
(* The controller is the environment: each request gets one of the replies *)
(* of a small set.  reqs is the sequence of the state-changing requests    *)
(* sent, waits the sequence of the jobs _wait_task was applied to.         *)
(***************************************************************************)
ConnFail == [conn_failed |-> TRUE, response |-> PlainResponse(200)]

Reply(r) == [conn_failed |-> FALSE, response |-> r]

\* Replies to a read: the transport raises, 200, or 500.
GetReplies == {ConnFail, Reply(PlainResponse(200)), Reply(PlainResponse(500))}

\* Replies to an update request: also 202 and 400 "An update is in progress".
PushReplies ==
    {ConnFail, Reply(PlainResponse(200)), Reply(PlainResponse(202)), Reply(PlainResponse(500)),
     Reply(Response(400, TRUE, {MsgInProgress}, {}, FALSE, {}))}

\* self._http_*(...) followed by self._handle_status_code(response, codes, handler).
\* The transport's own failure is an Err_Exception of kind BMC_CONNECTION_FAIL
\* (the kind check_bmc_availability expects of it, lines 243-245).
CallOutcome(reply, acceptable_codes, err_handler) ==
    IF reply.conn_failed THEN Err("BMC_CONNECTION_FAIL")
    ELSE HandleStatusCode(reply.response, acceptable_codes, err_handler)

\* A field read from the body of an accepted response, or BAD_RESPONSE_FORMAT.
Extract(reply, acceptable_codes, err_handler, present, value, what) ==
    LET o == CallOutcome(reply, acceptable_codes, err_handler)
    IN  IF Raised(o) THEN o
        ELSE IF ~present THEN ErrMsg("BAD_RESPONSE_FORMAT", {what})
        ELSE Ret(value)

\* is_bmc_background_copy_in_progress, lines 1038-1067.  status is the
\* BackgroundCopyStatus of the body, "missing" when the body has none.
IsBackgroundCopyInProgress(reply, status) ==
    LET o == Extract(reply, {200}, "None", status # "missing", status,
                     "Failed to extract BackgroundCopyStatus")
    IN  IF Raised(o) THEN o ELSE IF o.val # "Completed" THEN Ret("True") ELSE Ret("False")

\* get_update_service_state, lines 421-441.
GetUpdateServiceState(reply, state) ==
    Extract(reply, {200}, "None", state # "missing", state,
            "Failed to extract update service state")

\* get_last_task_info, lines 1852-1877, as do_update sees it: it raises (err is the
\* kind), returns None (no task), or returns the state and the payload's TargetUri
\* of the last task ("missing": the payload has no TargetUri).
LastTaskInfos ==
    [kind : {"raised"}, err : {"BMC_CONNECTION_FAIL", "INVALID_STATUS_CODE", "BAD_RESPONSE_FORMAT"},
     state : {"none"}, target : {"none"}]
    \cup {[kind |-> "None", err |-> "none", state |-> "none", target |-> "none"]}
    \cup [kind : {"info"}, err : {"none"}, state : {"Running", "Completed"},
          target : {"/redfish/v1/UpdateService/Actions/UpdateService.SimpleUpdate",
                    "/redfish/v1/UpdateService/update-multipart", "missing"}]

\* Line 1697 and line 1706: `last_task_info and last_task_info['state'] == 'Running'`.
LastTaskRunningAnyState(info) == info.kind = "info"

LastTaskRunning(info) == info.kind = "info" /\ info.state = "Running"

\* validate_args, lines 999-1019, with the credentials and the address given.
ValidateArgs(items, cfg) ==
    IF "Module" \in items /\ cfg.module = "None" THEN Err("MODULE_NOT_GIVEN")
    ELSE IF "FwFile" \in items /\ cfg.fw_file = "none" THEN Err("FW_FILE_NOT_GIVEN")
    ELSE IF "FwFile" \in items /\ cfg.fw_file = "unreadable"
    THEN ErrMsg("FILE_NOT_ACCESSIBLE", {"Firmware file"})
    ELSE IF "FRU" \in items /\ cfg.oem_fru = <<>> THEN Err("FRU_NOT_GIVEN")
    ELSE Ret("None")

\* is_fw_file_for_bmc / _cec / _atf_uefi / _conf, lines 934-968.  image names
\* what the strings of the file show.
IsFwFileFor(module, image) ==
    CASE module = "BMC" -> image = "bmc"
      [] module = "CEC" -> image = "cec"
      [] module = "BIOS" -> image \in {"bios", "conf"}
      [] module = "CONFIG" -> image = "conf"
      [] OTHER -> FALSE


\* The body of the loop of update_oem_fru for one item, lines 1582-1596.
FruItemOutcome(item) ==
    IF ~item.has_eq \/ item.colons # 1 THEN ErrMsg("INVALID_INPUT_PARAMETER", {"Invalid format for OEM FRU data"})
    ELSE IF item.value_len > 63 THEN ErrMsg("INVALID_INPUT_PARAMETER", {"exceeds 63 characters"})
    ELSE IF item.mfg_date /\ item.value_len > 0 /\ ~item.date_ok
    THEN ErrMsg("INVALID_INPUT_PARAMETER", {"Invalid date format for ManufactureDate"})
    ELSE Ret("None")

\* Line 1090: `if not ret`.
SkipDeclaredInverted(ret) == ret.val = "True"

SkipDeclared(ret) == ret.val = "False"

\* `a in b` of Python strings: the empty string is in every string.
Contains(s, pat) == pat = <<>> \/ Occurs(pat, s)

\* extract_atf_uefi_ver_from_fw_file, lines 924-931: the first line of the image's
\* strings with "(release)" or "(debug)"; it embeds the version of the boot firmware.
ImageAtfVer == TextOf("BF-24.10-33") \o <<"(", "r", "e", "l", "e", "a", "s", "e", ")">>

\* get_ver as the workflows call it: the loop of get_ver over the replies to its
\* attempts.
RECURSIVE GetVerFrom(_, _)
GetVerFrom(frame, replies) ==
    IF frame.pc = "done" THEN frame.ret
    ELSE IF frame.i >= frame.num_of_tries THEN Ret("")
    ELSE GetVerFrom(GetVerBody(frame, GetVerOnce(frame.module, replies[frame.i + 1])), replies)

GetVer(module, replies) == GetVerFrom(NewGetVer(module, DefaultTries), replies)

VerReplySeqs == [1..DefaultTries -> {r \in VerReplies : r.conn_failed \/ r.has_version}]

\* update_bmc_fw, lines 620-661: the outcome and the requests sent.  uris names the
\* push URIs the update service shows.
Step(outcome, reqs) == [outcome |-> outcome, reqs |-> reqs]

UpdateBmcFw(get_reply, uris, push_reply, has_handle) ==
    LET g == CallOutcome(get_reply, {200}, "None")
        req == IF uris \in {"both", "multipart"} THEN "multipart push" ELSE "raw push"
        p == CallOutcome(push_reply, {100, 200, 202}, "update_in_progress")
    IN  IF Raised(g) THEN Step(g, <<>>)
        ELSE IF uris = "none" THEN Step(Err("PUSH_URI_NOT_FOUND"), <<>>)
        ELSE IF Raised(p) THEN Step(p, <<req>>)
        ELSE IF ~has_handle
        THEN Step(ErrMsg("BAD_RESPONSE_FORMAT", {"Failed to extract task handle"}), <<req>>)
        ELSE Step(Ret("task_handle"), <<req>>)

\* reboot_cec, lines 705-729: the POST and its status; _wait_for_bmc_on, which
\* follows an accepted reset, raises nothing.
RebootCec(reply) == CallOutcome(reply, {200}, "reboot_cec")

\* A mutant of try_reboot_cec: every failure of reboot_cec is swallowed.
TryRebootCecSwallowAll(reply) == Step(Ret("None"), <<"Chassis.Reset">>)

\* try_reboot_cec, lines 732-739.
TryRebootCec(reply) ==
    LET o == RebootCec(reply)
    IN  IF ~Raised(o) THEN Step(Ret("None"), <<"Chassis.Reset">>)
        ELSE IF o.kind # "Err_Exception" THEN Step(Exc("AttributeError"), <<"Chassis.Reset">>)
        ELSE IF o.val \in {"NOT_SUPPORT_CEC_RESTART", "NO_PENDING_CEC_FW"}
        THEN Step(Ret("None"), <<"Chassis.Reset">>)
        ELSE Step(o, <<"Chassis.Reset">>)

\* enable_rshim_on_bmc(enable), lines 1122-1132.
EnableRshimOnBmc(enable, reply) ==
    Step(CallOutcome(reply, {200}, "None"),
         <<IF enable THEN "PATCH BmcRShimEnabled true" ELSE "PATCH BmcRShimEnabled false">>)

\* A mutant of simple_update: a forced protocol that is not usable gives way to the
\* default preference.
SelectProtocolFallback(bfb_update_protocol, advertised) ==
    LET protocols == advertised \cap {"HTTP", "SCP"}
    IN  IF bfb_update_protocol \in protocols THEN Ret(bfb_update_protocol)
        ELSE IF "HTTP" \in protocols THEN Ret("HTTP")
        ELSE IF "SCP" \in protocols THEN Ret("SCP")
        ELSE Err("NOT_SUPPORT_SIMPLE_UPDATE_PROTOCOL")

\* A mutant of simple_update: SCP is preferred to HTTP.
SelectProtocolScpFirst(bfb_update_protocol, advertised) ==
    LET protocols == advertised \cap {"HTTP", "SCP"}
    IN  IF bfb_update_protocol # "None"
        THEN IF bfb_update_protocol \notin protocols
             THEN Err("NOT_SUPPORT_SIMPLE_UPDATE_PROTOCOL")
             ELSE Ret(bfb_update_protocol)
        ELSE IF "SCP" \in protocols THEN Ret("SCP")
        ELSE IF "HTTP" \in protocols THEN Ret("HTTP")
        ELSE Err("NOT_SUPPORT_SIMPLE_UPDATE_PROTOCOL")

\* simple_update, lines 483-504: the protocol selected.
SelectProtocol(bfb_update_protocol, advertised) ==
    LET protocols == advertised \cap {"HTTP", "SCP"}
    IN  IF bfb_update_protocol # "None"
        THEN IF bfb_update_protocol \notin protocols
             THEN Err("NOT_SUPPORT_SIMPLE_UPDATE_PROTOCOL")
             ELSE Ret(bfb_update_protocol)
        ELSE IF "HTTP" \in protocols THEN Ret("HTTP")
        ELSE IF "SCP" \in protocols THEN Ret("SCP")
        ELSE Err("NOT_SUPPORT_SIMPLE_UPDATE_PROTOCOL")

\* simple_update_impl, lines 525-539; t is get_simple_update_targets, lines 516-522.
SimpleUpdateImpl(module, post_reply, has_handle) ==
    LET t == IF module \in {"BIOS", "BUNDLE", "CONFIG"} THEN Ret("targets")
             ELSE ErrMsg("UNSUPPORTED_MODULE",
                         {"Only BIOS and CONFIG can be updated by SimpleUpdate"})
        p == CallOutcome(post_reply, {100, 200, 202}, "update_in_progress")
    IN  IF Raised(t) THEN Step(t, <<>>)
        ELSE IF Raised(p) THEN Step(p, <<"SimpleUpdate">>)
        ELSE IF ~has_handle
        THEN Step(ErrMsg("BAD_RESPONSE_FORMAT", {"Failed to extract task handle"}), <<"SimpleUpdate">>)
        ELSE Step(Ret("task_handle"), <<"SimpleUpdate">>)

\* simple_update_by_protocol, lines 509-513, over simple_update_by_http (613-617)
\* and simple_update_by_scp (542-545, with confirm_ssh_key_with_bmc for one local
\* key).  setup_ok: the file server's port was read, resp. ssh-keyscan gave a key.
SimpleUpdateByProtocol(protocol, module, setup_ok, key_reply, has_key, post_reply, has_handle) ==
    LET k == Extract(key_reply, {200}, "None", has_key, "bmc_key", "Failed to extract BMC SSH key")
        s == SimpleUpdateImpl(module, post_reply, has_handle)
    IN  IF protocol = "HTTP"
        THEN IF ~setup_ok THEN Step(Err("FAILED_TO_START_HTTP_SERVER"), <<>>) ELSE s
        ELSE IF ~setup_ok THEN Step(Err("FAILED_TO_GET_LOCAL_KEY"), <<>>)
        ELSE IF Raised(k) THEN Step(k, <<"PublicKeyExchange">>)
        ELSE Step(s.outcome, <<"PublicKeyExchange">> \o s.reqs)

RunCommandOnBmc(rc_zero, exit_on_error) ==
    IF ~rc_zero /\ exit_on_error THEN ErrMsg("<output of the command>", {"Command failed"})
    ELSE Ret("output")

\* enable_runtime_rshim / disable_runtime_rshim, lines 1379-1404.
SetRuntimeRshim(enable, reply) ==
    Step(CallOutcome(reply, {200}, "None"), <<IF enable THEN "LFWP Enabled" ELSE "LFWP Disabled">>)

\* get_system_power_state, lines 1531-1545: '' when the read or its status fails,
\* BAD_RESPONSE_FORMAT when the body of an accepted response has no PowerState.
\* power_state is <<>> for a body without the key and <<state>> otherwise.
GetSystemPowerState(reply, power_state) ==
    IF Raised(CallOutcome(reply, {200}, "None")) THEN Ret("")
    ELSE IF power_state = <<>>
    THEN ErrMsg("BAD_RESPONSE_FORMAT", {"Failed to extract system power state"})
    ELSE Ret(power_state[1])

\* send_reset_bios, lines 1485-1497; power_reply is what a read of
\* _wait_for_system_power_on gets.
SendResetBios(reply, power_reply, has_state) ==
    LET p == CallOutcome(reply, {200}, "None")
        w == GetSystemPowerState(power_reply, IF has_state THEN <<"On">> ELSE <<>>)
    IN  IF Raised(p) THEN Step(p, <<"Bios.ResetBios">>)
        ELSE IF Raised(w) THEN Step(w, <<"Bios.ResetBios">>)
        ELSE Step(Ret("None"), <<"Bios.ResetBios">>)

AllVersionsBmc(list_reply, members, ver_reply) ==
    LET l == Extract(list_reply, {200}, "None", members # "missing", members,
                     "Failed to extract firmware URI list")
        v == GetVerByUri(ver_reply)
    IN  IF Raised(l) THEN l
        ELSE IF Raised(v) THEN v
        ELSE IF members = "no_bmc" THEN Exc("KeyError")
        ELSE v

\* The prefix of the items that update_oem_fru accepts before it stops.
RECURSIVE FruOutcome(_, _)
FruOutcome(oem_fru, k) ==
    IF k > Len(oem_fru) THEN Ret("None")
    ELSE IF Raised(FruItemOutcome(oem_fru[k])) THEN FruItemOutcome(oem_fru[k])
    ELSE FruOutcome(oem_fru, k + 1)

\* A mutant of update_oem_fru: only the first item is validated before the write.
UpdateOemFruFirstItemOnly(oem_fru, reply) ==
    LET v == FruOutcome(SubSeq(oem_fru, 1, 1), 1)
    IN  IF Raised(v) THEN Step(v, <<>>)
        ELSE IF reply.conn_failed THEN Step(Err("BMC_CONNECTION_FAIL"), <<"PUT Oem/Nvidia">>)
        ELSE IF reply.response.status_code # 200
        THEN Step(ErrMsg("INVALID_STATUS_CODE", {"Failed to update OEM FRU data"}), <<"PUT Oem/Nvidia">>)
        ELSE Step(Ret("None"), <<"PUT Oem/Nvidia">>)

\* update_oem_fru after validate_arg_for_fru, lines 1577-1609.
UpdateOemFru(oem_fru, reply) ==
    LET v == FruOutcome(oem_fru, 1)
    IN  IF Raised(v) THEN Step(v, <<>>)
        ELSE IF reply.conn_failed THEN Step(Err("BMC_CONNECTION_FAIL"), <<"PUT Oem/Nvidia">>)
        ELSE IF reply.response.status_code # 200
        THEN Step(ErrMsg("INVALID_STATUS_CODE", {"Failed to update OEM FRU data"}), <<"PUT Oem/Nvidia">>)
        ELSE Step(Ret("None"), <<"PUT Oem/Nvidia">>)

(***************************************************************************)
(* The frame of do_update.  cfg holds the fields the constructor set.      *)
(***************************************************************************)
Config(module, fw_file, image, skip_same_version, bfb_update_protocol, lfwp, reset_bios, oem_fru) ==
    [module |-> module, fw_file |-> fw_file, image |-> image,
     skip_same_version |-> skip_same_version, bfb_update_protocol |-> bfb_update_protocol,
     lfwp |-> lfwp, reset_bios |-> reset_bios, oem_fru |-> oem_fru]

\* The longest list of -s items.
MaxFru == 2

Configs ==
    LET \* One 'Section:Key=Value' item of oem_fru, by what update_oem_fru tests of it.
        fru_items ==
            {[has_eq |-> TRUE, colons |-> 1, value_len |-> 63, mfg_date |-> FALSE, date_ok |-> FALSE],
             [has_eq |-> TRUE, colons |-> 1, value_len |-> 64, mfg_date |-> FALSE, date_ok |-> FALSE],
             [has_eq |-> FALSE, colons |-> 1, value_len |-> 0, mfg_date |-> FALSE, date_ok |-> FALSE],
             [has_eq |-> TRUE, colons |-> 2, value_len |-> 5, mfg_date |-> FALSE, date_ok |-> FALSE],
             [has_eq |-> TRUE, colons |-> 1, value_len |-> 19, mfg_date |-> TRUE, date_ok |-> TRUE],
             [has_eq |-> TRUE, colons |-> 1, value_len |-> 19, mfg_date |-> TRUE, date_ok |-> FALSE],
             [has_eq |-> TRUE, colons |-> 1, value_len |-> 0, mfg_date |-> TRUE, date_ok |-> FALSE]}
    IN
    {Config("BMC", f, i, s, "None", FALSE, FALSE, <<>>) :
        f \in {"none", "unreadable", "ok"}, i \in {"bmc", "cec"}, s \in BOOLEAN}
    \cup {Config("CEC", "ok", i, FALSE, "None", FALSE, FALSE, <<>>) : i \in {"bmc", "cec"}}
    \cup {Config("BIOS", "ok", i, s, p, FALSE, FALSE, <<>>) :
            i \in {"bios", "conf", "bmc"}, s \in BOOLEAN, p \in {"None", "HTTP", "SCP"}}
    \cup {Config("CONFIG", "ok", i, FALSE, "None", FALSE, FALSE, <<>>) : i \in {"bios", "conf"}}
    \cup {Config("BUNDLE", "ok", "bios", FALSE, p, l, r, <<>>) :
            p \in {"None", "SCP"}, l \in BOOLEAN, r \in BOOLEAN}
    \cup {Config("FRU", "none", "none", FALSE, "None", FALSE, FALSE, f) : f \in (UNION {[1..n -> fru_items] : n \in 0..MaxFru})}
    \cup {Config(m, "ok", "bios", FALSE, "None", FALSE, FALSE, <<>>) : m \in {"None", "NIC"}}

\* probe: what check_bmc_availability returned.  reqs: the state-changing requests
\* sent, in order.  waits: the jobs _wait_task was applied to, in order.  skip: the
\* 'skip - same version' outcome declared ("job": after the poll, "version": after
\* the comparison of versions).  marker_seen: the last sample of this invocation's
\* own job had the identical-image marker.  first_state: whether do_update took the last task
\* for Running at the first inspection; inspection: what the latest inspection
\* showed ("raised": it failed; "not running": no task, or a task in another state).  protocols: simple_update's list of the usable protocols,
\* once the advertised ones (advertised) were read.  setup: the transport whose setup was started
\* (HTTP: the file-server process, SCP: the key handshake).  put_status: the status
\* code of the response to update_oem_fru's PUT, 0 without a response.  steps: the
\* calls update_bmc_or_cec has made, in order.  service_ready: wait_update_service_ready
\* has seen the state 'Enabled'; service_last: what its last read gave ("error": the
\* read raised).  prior_running: the prior job was Running at every
\* sample of its wait, to the end of the budget.  recheck_running: the second
\* inspection found a Running job.
NewDoUpdate(cfg) ==
    [pc |-> "availability", cfg |-> cfg, outcome |-> NoOutcome, probe |-> "none",
     reqs |-> <<>>, waits |-> <<>>, skip |-> "none", marker_seen |-> FALSE,
     first_state |-> "none", elapsed |-> 0, step |-> 0, old_ver |-> "", new_ver |-> "",
     cur_atf |-> "", protocols |-> {"<unbound>"}, protocol |-> "None", setup |-> "none",
     put_status |-> 0, steps |-> <<>>, service_ready |-> FALSE,
     prior_running |-> FALSE, recheck_running |-> FALSE, rshim_seen |-> <<>>,
     cec_reset |-> <<>>, advertised |-> {"<unbound>"}, service_last |-> "none",
     inspection |-> "none"]

\* The frame after the workflow ended with this outcome.
Finish(frame, outcome) == [frame EXCEPT !.pc = "done", !.outcome = outcome]

\* The frame after a step: ended when the step raised, at pc otherwise.
After(frame, step, pc) ==
    IF Raised(step.outcome)
    THEN [frame EXCEPT !.pc = "done", !.outcome = step.outcome, !.reqs = @ \o step.reqs]
    ELSE [frame EXCEPT !.pc = pc, !.reqs = @ \o step.reqs]

\* A mutant of update_bundle: the factory reset is requested in runtime mode too.
ReturnToResetAlways(cfg, callee) ==
    CASE callee = "service" -> IF cfg.module = "BUNDLE" THEN "bundle_old_vers" ELSE "image_check"
      [] callee = "rshim" -> IF cfg.module = "BUNDLE" THEN "display_level" ELSE "select_protocol"
      [] cfg.module = "BIOS" -> "bios_verify"
      [] cfg.module = "CONFIG" -> "reset_bios"
      [] OTHER -> IF cfg.reset_bios THEN "reset_bios"
                  ELSE IF cfg.lfwp THEN "lfwp_disable" ELSE "bundle_new_vers"

\* Where a workflow goes on after a callee it shares with other workflows:
\* wait_update_service_ready (lines 1072, 1280, 1431, 1626; update_bios and update_conf
\* go on to the image check, update_bundle to its versions), try_enable_rshim_on_bmc
\* (lines 1302, 1436, 1632) and _start_and_wait_simple_update_task (lines 1303, 1449,
\* 1633).
ReturnTo(cfg, callee) ==
    CASE callee = "service" -> IF cfg.module = "BUNDLE" THEN "bundle_old_vers" ELSE "image_check"
      [] callee = "rshim" -> IF cfg.module = "BUNDLE" THEN "display_level" ELSE "select_protocol"
      [] cfg.module = "BIOS" -> "bios_verify"
      [] cfg.module = "CONFIG" -> "reset_bios"
      [] OTHER -> IF cfg.lfwp THEN "lfwp_disable"
                  ELSE IF cfg.reset_bios THEN "reset_bios" ELSE "bundle_new_vers"

\* do_update, line 1681: the value check_bmc_availability returns is not used.
DuCheckAvailability ==
    /\ du.pc = "availability"
    /\ \E reply \in (GetReplies \cup {Reply(PlainResponse(401))}) :
         \* check_bmc_availability, lines 222-252: a status makes it return True or
         \* False, a failure of the transport makes it raise.
         LET o == IF reply.conn_failed
                  THEN ErrMsg("BMC_CONNECTION_FAIL", {"BMC is not reachable"})
                  ELSE IF reply.response.status_code \in {200, 401} THEN Ret("True")
                  ELSE Ret("False")
         IN  du' = IF Raised(o) THEN Finish(du, o)
                   ELSE [du EXCEPT !.pc = "bgcopy", !.probe = o.val]
    /\ UNCHANGED <<wt, hs, gv, lg, mn, vc, hp, wf, ak, cm>>

\* Lines 1683-1685.
DuBackgroundCopy ==
    /\ du.pc = "bgcopy"
    /\ \E reply \in GetReplies, status \in {"Completed", "InProgress", "missing"} :
         LET o == IsBackgroundCopyInProgress(reply, status)
         IN  du' = IF Raised(o) THEN Finish(du, o)
                   ELSE IF o.val = "True" THEN [du EXCEPT !.pc = "bgwait", !.elapsed = 0]
                   ELSE [du EXCEPT !.pc = "lasttask"]
    /\ UNCHANGED <<wt, hs, gv, lg, mn, vc, hp, wf, ak, cm>>

\* One iteration of the loop of wait_for_background_copy, lines 1662-1676.
DuBackgroundWait ==
    /\ du.pc = "bgwait"
    /\ IF du.elapsed > (60 * 20)
       THEN du' = Finish(du, ErrMsg("BMC_BACKGROUND_BUSY", {"BMC background copy operation did not complete"}))
       ELSE \E reply \in GetReplies, status \in {"Completed", "InProgress", "missing"} :
              LET o == IsBackgroundCopyInProgress(reply, status)
              IN  du' = IF Raised(o) THEN Finish(du, o)
                        ELSE IF o.val = "False" THEN [du EXCEPT !.pc = "lasttask", !.elapsed = 0]
                        ELSE [du EXCEPT !.elapsed = @ + (10)]
    /\ UNCHANGED <<wt, hs, gv, lg, mn, vc, hp, wf, ak, cm>>

\* Lines 1688-1703: the first inspection of the last task, and the call of
\* _wait_task on it when it is Running.  An inspection that raises leaves
\* last_task_info None (lines 1692-1695).
DuGetLastTask ==
    /\ du.pc = "lasttask"
    /\ \E info \in LastTaskInfos :
         LET last_task_info == IF info.kind = "raised" THEN [kind |-> "None", err |-> "none", state |-> "none", target |-> "none"] ELSE info
             \* What the inspection showed, for the properties below.
             shown == IF info.kind = "info" /\ info.state = "Running"
                      THEN "Running" ELSE "not running"
             seen == [du EXCEPT !.first_state = shown,
                                !.inspection = IF info.kind = "raised" THEN "raised" ELSE shown]
         IN  IF LastTaskRunning(last_task_info)
             THEN IF last_task_info.target = "missing"
                  THEN /\ du' = Finish(seen, Exc("KeyError"))
                       /\ wt' = wt
                  ELSE /\ du' = [seen EXCEPT !.pc = "priorwait", !.waits = Append(@, "prior")]
                       /\ wt' = NewWaitTask("prior", 20 * 60, 2, "None")
             ELSE /\ du' = [seen EXCEPT !.pc = "dispatch"]
                  /\ wt' = wt
    /\ UNCHANGED <<hs, gv, lg, mn, vc, hp, wf, ak, cm>>

\* _wait_task on the prior job has ended, line 1703.
DuPriorWaitDone ==
    /\ du.pc = "priorwait"
    /\ wt.pc = "done"
    /\ LET waited == [du EXCEPT !.prior_running =
                          /\ wt.task_state.state = "Running"
                          /\ wt.i >= LoopCount(wt.max_second, wt.check_step)]
       IN  du' = IF Raised(wt.ret) THEN Finish(waited, wt.ret)
                 ELSE [waited EXCEPT !.pc = "recheck"]
    /\ wt' = Idle
    /\ UNCHANGED <<hs, gv, lg, mn, vc, hp, wf, ak, cm>>

\* Lines 1704-1707: the second inspection, outside any try.
DuRecheck ==
    /\ du.pc = "recheck"
    /\ \E info \in LastTaskInfos :
         LET seen == [du EXCEPT !.recheck_running =
                                    info.kind = "info" /\ info.state = "Running",
                                !.inspection = IF info.kind = "raised" THEN "raised"
                                               ELSE IF info.kind = "info" /\ info.state = "Running"
                                               THEN "Running"
                                               ELSE "not running"]
         IN  du' = IF info.kind = "raised" THEN Finish(seen, Err(info.err))
                   ELSE IF LastTaskRunning(info)
                   THEN Finish(seen, ErrMsg("BMC_BACKGROUND_BUSY", {"Please try to update later"}))
                   ELSE [seen EXCEPT !.pc = "dispatch"]
    /\ UNCHANGED <<wt, hs, gv, lg, mn, vc, hp, wf, ak, cm>>

\* Lines 1709-1720.
DuDispatch ==
    /\ du.pc = "dispatch"
    /\ du' = IF du.cfg.module \in {"BMC", "CEC", "BIOS", "FRU", "CONFIG"}
             THEN [du EXCEPT !.pc = "validate"]
             ELSE IF du.cfg.module = "BUNDLE" THEN [du EXCEPT !.pc = "lfwp_check"]
             ELSE Finish(du, ErrMsg("UNSUPPORTED_MODULE", {"Unsupported module"}))
    /\ UNCHANGED <<wt, hs, gv, lg, mn, vc, hp, wf, ak, cm>>

\* update_bundle, lines 1426-1428, over is_lfwp_supported, lines 1407-1422, which
\* is False when its read fails.
DuLfwpCheck ==
    /\ du.pc = "lfwp_check"
    /\ \E reply \in GetReplies, has_action \in BOOLEAN :
         du' = IF du.cfg.lfwp /\ (Raised(CallOutcome(reply, {200}, "None")) \/ ~has_action)
               THEN Finish(du, ErrMsg("UNSUPPORTED_MODULE", {"LFWP.Set is not supported on this BMC"}))
               ELSE [du EXCEPT !.pc = "validate"]
    /\ UNCHANGED <<wt, hs, gv, lg, mn, vc, hp, wf, ak, cm>>

\* validate_arg_for_update (lines 1022-1023, called at lines 1071, 1279, 1430, 1625)
\* or validate_arg_for_fru (lines 1026-1027, called at line 1576).
DuValidate ==
    /\ du.pc = "validate"
    /\ LET o == IF du.cfg.module = "FRU"
                THEN ValidateArgs({"UserName", "Password", "BmcIP", "Module", "FRU"}, du.cfg)
                ELSE ValidateArgs({"UserName", "Password", "BmcIP", "Module", "FwFile"}, du.cfg)
       IN  du' = IF Raised(o) THEN Finish(du, o)
                 ELSE IF du.cfg.module = "FRU" THEN [du EXCEPT !.pc = "fru"]
                 ELSE [du EXCEPT !.pc = "service"]
    /\ UNCHANGED <<wt, hs, gv, lg, mn, vc, hp, wf, ak, cm>>

\* wait_update_service_ready, lines 445-446: the first read.
DuServiceReady ==
    /\ du.pc = "service"
    /\ \E reply \in GetReplies, state \in {"Enabled", "Updating", "missing"} :
         LET o == GetUpdateServiceState(reply, state)
         IN  du' = IF Raised(o) THEN Finish([du EXCEPT !.service_last = "error"], o)
                   ELSE IF o.val = "Enabled"
                   THEN [du EXCEPT !.pc = ReturnTo(du.cfg, "service"), !.service_ready = TRUE,
                                   !.service_last = "Enabled"]
                   ELSE [du EXCEPT !.pc = "service_wait", !.elapsed = 0,
                                   !.service_last = "not ready"]
    /\ UNCHANGED <<wt, hs, gv, lg, mn, vc, hp, wf, ak, cm>>

\* A mutant of the loop of wait_update_service_ready: a read that raises leaves
\* the wait.
DuServiceWaitAbort ==
    /\ du.pc = "service_wait"
    /\ IF du.elapsed > (60 * 3)
       THEN du' = Finish(du, Err("UPDATE_SERVICE_NOT_READY"))
       ELSE \E reply \in GetReplies, state \in {"Enabled", "Updating", "missing"} :
              LET o == GetUpdateServiceState(reply, state)
              IN  du' = IF Raised(o) THEN Finish([du EXCEPT !.service_last = "error"], o)
                        ELSE IF o.val = "Enabled"
                        THEN [du EXCEPT !.pc = ReturnTo(du.cfg, "service"), !.elapsed = 0,
                                        !.service_ready = TRUE, !.service_last = "Enabled"]
                        ELSE [du EXCEPT !.elapsed = @ + (4), !.service_last = "not ready"]
    /\ UNCHANGED <<wt, hs, gv, lg, mn, vc, hp, wf, ak, cm>>

\* One iteration of the loop of wait_update_service_ready, lines 452-465.
DuServiceWait ==
    /\ du.pc = "service_wait"
    /\ IF du.elapsed > (60 * 3)
       THEN du' = Finish(du, Err("UPDATE_SERVICE_NOT_READY"))
       ELSE \E reply \in GetReplies, state \in {"Enabled", "Updating", "missing"} :
              LET o == GetUpdateServiceState(reply, state)
              IN  du' = IF ~Raised(o) /\ o.val = "Enabled"
                        THEN [du EXCEPT !.pc = ReturnTo(du.cfg, "service"), !.elapsed = 0,
                                        !.service_ready = TRUE, !.service_last = "Enabled"]
                        ELSE [du EXCEPT !.elapsed = @ + (4),
                                        !.service_last = IF Raised(o) THEN "error"
                                                         ELSE "not ready"]
    /\ UNCHANGED <<wt, hs, gv, lg, mn, vc, hp, wf, ak, cm>>

\* A mutant of the image check: a mismatch is reported only after the next step.
DuImageCheckLate ==
    /\ du.pc = "image_check"
    /\ du' = IF du.cfg.module \in {"BMC", "CEC"} THEN [du EXCEPT !.pc = "old_ver"]
             ELSE IF du.cfg.module = "BIOS" THEN [du EXCEPT !.pc = "bios_versions"]
             ELSE [du EXCEPT !.pc = "rshim_read", !.step = 1]
    /\ UNCHANGED <<wt, hs, gv, lg, mn, vc, hp, wf, ak, cm>>

\* Lines 1075-1077, 1282-1283, 1628-1629.
DuImageCheck ==
    /\ du.pc = "image_check"
    /\ du' = IF ~IsFwFileFor(du.cfg.module, du.cfg.image)
             THEN Finish(du, Err("FW_FILE_NOT_MATCH_MODULE"))
             ELSE IF du.cfg.module \in {"BMC", "CEC"} THEN [du EXCEPT !.pc = "old_ver"]
             ELSE IF du.cfg.module = "BIOS" THEN [du EXCEPT !.pc = "bios_versions"]
             ELSE [du EXCEPT !.pc = "rshim_read", !.step = 1]
    /\ UNCHANGED <<wt, hs, gv, lg, mn, vc, hp, wf, ak, cm>>

(***************************************************************************)
(* update_bmc_or_cec.                                                      *)
(***************************************************************************)
\* Lines 1079-1081.
DuOldVer ==
    /\ du.pc = "old_ver"
    /\ \E replies \in VerReplySeqs :
         LET old_ver == GetVer(du.cfg.module, replies).val
             read == [du EXCEPT !.steps = Append(@, "get_ver old")]
         IN  du' = IF old_ver = "" THEN Finish(read, ErrMsg("EMPTY_FW_VER", {"Get empty version"}))
                   ELSE [read EXCEPT !.pc = "bc_bgcopy", !.old_ver = old_ver]
    /\ UNCHANGED <<wt, hs, gv, lg, mn, vc, hp, wf, ak, cm>>

\* Lines 1083-1084.
DuBcBackgroundCopy ==
    /\ du.pc = "bc_bgcopy"
    /\ \E reply \in GetReplies, status \in {"Completed", "InProgress", "missing"} :
         LET o == IsBackgroundCopyInProgress(reply, status)
             read == [du EXCEPT !.steps = Append(@, "is_bmc_background_copy_in_progress")]
         IN  du' = IF Raised(o) THEN Finish(read, o)
                   ELSE IF o.val = "True"
                   THEN Finish(read, ErrMsg("BMC_BACKGROUND_BUSY",
                                            {"Please try to update the firmware later"}))
                   ELSE [read EXCEPT !.pc = "push"]
    /\ UNCHANGED <<wt, hs, gv, lg, mn, vc, hp, wf, ak, cm>>

\* A mutant of the call of _wait_task: the BMC job gets the default budget of
\* _wait_task.
DuPushDefaultBudget ==
    /\ du.pc = "push"
    /\ \E get_reply \in GetReplies, uris \in {"both", "multipart", "deprecated", "none"}, push_reply \in PushReplies,
          has_handle \in BOOLEAN :
         LET s == UpdateBmcFw(get_reply, uris, push_reply, has_handle)
             is_bmc == du.cfg.module = "BMC"
             called == [du EXCEPT !.steps = Append(@, "update_bmc_fw")]
         IN  IF Raised(s.outcome)
             THEN du' = After(called, s, "done") /\ wt' = wt
             ELSE /\ du' = [After(called, s, "own_wait") EXCEPT !.waits = Append(@, "own")]
                  /\ wt' = NewWaitTask("own", IF is_bmc THEN 15 * 60 ELSE 4 * 60,
                                       IF is_bmc THEN 10 ELSE 2, "None")
    /\ UNCHANGED <<hs, gv, lg, mn, vc, hp, wf, ak, cm>>

\* Lines 1088-1089: update_bmc_fw, then the call of _wait_task on its job.
DuPush ==
    /\ du.pc = "push"
    /\ \E get_reply \in GetReplies, uris \in {"both", "multipart", "deprecated", "none"}, push_reply \in PushReplies,
          has_handle \in BOOLEAN :
         LET s == UpdateBmcFw(get_reply, uris, push_reply, has_handle)
             is_bmc == du.cfg.module = "BMC"
             called == [du EXCEPT !.steps = Append(@, "update_bmc_fw")]
         IN  IF Raised(s.outcome)
             THEN du' = After(called, s, "done") /\ wt' = wt
             ELSE /\ du' = [After(called, s, "own_wait") EXCEPT !.waits = Append(@, "own")]
                  /\ wt' = NewWaitTask("own", IF is_bmc THEN 20 * 60 ELSE 4 * 60,
                                       IF is_bmc THEN 10 ELSE 2, "None")
    /\ UNCHANGED <<hs, gv, lg, mn, vc, hp, wf, ak, cm>>

\* A mutant of update_bmc_or_cec: the value _wait_task returned is not tested.
DuBcWaitDoneNoSkip ==
    /\ du.pc = "own_wait"
    /\ wt.pc = "done"
    /\ LET seen == [du EXCEPT !.marker_seen = MsgIdentical \in wt.task_state.message,
                               !.steps = Append(@, "_wait_task")]
       IN  du' = IF Raised(wt.ret) THEN Finish(seen, wt.ret)
                 ELSE [seen EXCEPT !.pc = "reboot"]
    /\ wt' = Idle
    /\ UNCHANGED <<hs, gv, lg, mn, vc, hp, wf, ak, cm>>

\* Lines 1089-1092: _wait_task has ended.
DuBcWaitDone ==
    /\ du.pc = "own_wait"
    /\ wt.pc = "done"
    /\ LET seen == [du EXCEPT !.marker_seen = MsgIdentical \in wt.task_state.message,
                               !.steps = Append(@, "_wait_task")]
       IN  du' = IF Raised(wt.ret) THEN Finish(seen, wt.ret)
                 ELSE IF SkipDeclared(wt.ret) THEN Finish([seen EXCEPT !.skip = "job"], Ret("None"))
                 ELSE [seen EXCEPT !.pc = "reboot"]
    /\ wt' = Idle
    /\ UNCHANGED <<hs, gv, lg, mn, vc, hp, wf, ak, cm>>

\* reboot_bmc: line 1095 for the BMC, line 1641 at the end of update_conf.
DuRebootBmc ==
    /\ du.pc = "reboot"
    /\ du.cfg.module \in {"BMC", "CONFIG"}
    /\ \E reply \in GetReplies :
         \* reboot_bmc, lines 690-702; _wait_for_bmc_on swallows every error of its reads.
         LET s == Step(CallOutcome(reply, {200}, "None"), <<"Manager.Reset">>)
             called == [du EXCEPT !.steps = @ \o (IF Raised(s.outcome) THEN <<"Manager.Reset">>
                                                  ELSE <<"Manager.Reset", "_wait_for_bmc_on">>)]
         IN  du' = IF du.cfg.module = "BMC" THEN After(called, s, "new_ver")
                   ELSE IF Raised(s.outcome) THEN After(called, s, "done")
                   ELSE Finish(After(called, s, "done"), Ret("None"))
    /\ UNCHANGED <<wt, hs, gv, lg, mn, vc, hp, wf, ak, cm>>

\* try_reboot_cec, line 1095.
DuRebootCec ==
    /\ du.pc = "reboot"
    /\ du.cfg.module = "CEC"
    /\ \E reply \in {ConnFail, Reply(PlainResponse(200)), Reply(PlainResponse(500)),
                      Reply(Response(400, TRUE, {}, {"ActionNotSupported"}, FALSE, {})),
                      Reply(Response(404, TRUE, {}, {"ResourceNotFound"}, FALSE, {}))} :
         LET s == TryRebootCec(reply)
             warned == Raised(RebootCec(reply)) /\ ~Raised(s.outcome)
             called == [du EXCEPT !.cec_reset = <<reply>>,
                                  !.steps = @ \o (IF warned THEN <<"try_reboot_cec", "print warning">>
                                                  ELSE <<"try_reboot_cec">>)]
         IN  du' = After(called, s, "new_ver")
    /\ UNCHANGED <<wt, hs, gv, lg, mn, vc, hp, wf, ak, cm>>

\* A mutant of the last step of update_bmc_or_cec: the event-log clear check gets
\* the new version twice.
DuNewVerSelOnNew ==
    /\ du.pc = "new_ver"
    /\ \E replies \in VerReplySeqs :
         LET new_ver == GetVer(du.cfg.module, replies).val
             is_bmc == du.cfg.module = "BMC"
             sel == IF is_bmc THEN SelRequests(Str(TextOf(new_ver)), Str(TextOf(new_ver)))
                    ELSE <<>>
             calls == <<"get_ver new">>
                      \o (IF is_bmc THEN <<"_check_and_clear_sel_if_needed">> ELSE <<>>)
                      \o <<"print versions">>
         IN  du' = Finish([du EXCEPT !.new_ver = new_ver, !.reqs = @ \o sel,
                                     !.steps = @ \o calls], Ret("None"))
    /\ UNCHANGED <<wt, hs, gv, lg, mn, vc, hp, wf, ak, cm>>

\* Lines 1097-1104.
DuNewVer ==
    /\ du.pc = "new_ver"
    /\ \E replies \in VerReplySeqs :
         LET new_ver == GetVer(du.cfg.module, replies).val
             is_bmc == du.cfg.module = "BMC"
             sel == IF is_bmc THEN SelRequests(Str(TextOf(du.old_ver)), Str(TextOf(new_ver)))
                    ELSE <<>>
             calls == <<"get_ver new">>
                      \o (IF is_bmc THEN <<"_check_and_clear_sel_if_needed">> ELSE <<>>)
                      \o <<"print versions">>
         IN  du' = Finish([du EXCEPT !.new_ver = new_ver, !.reqs = @ \o sel,
                                     !.steps = @ \o calls], Ret("None"))
    /\ UNCHANGED <<wt, hs, gv, lg, mn, vc, hp, wf, ak, cm>>

(***************************************************************************)
(* update_oem_fru.                                                         *)
(***************************************************************************)
DuFru ==
    /\ du.pc = "fru"
    /\ \E reply \in GetReplies :
         LET s == UpdateOemFru(du.cfg.oem_fru, reply)
             status == IF s.reqs = <<>> \/ reply.conn_failed THEN 0
                       ELSE reply.response.status_code
         IN  du' = IF Raised(s.outcome) THEN [After(du, s, "done") EXCEPT !.put_status = status]
                   ELSE [Finish(After(du, s, "done"), Ret("None")) EXCEPT !.put_status = status]
    /\ UNCHANGED <<wt, hs, gv, lg, mn, vc, hp, wf, ak, cm>>

(***************************************************************************)
(* update_bios, update_conf, update_bundle and the steps they share.       *)
(***************************************************************************)
\* update_bios, lines 1286-1298.  get_ver returns a string, never None.
DuBiosVersions ==
    /\ du.pc = "bios_versions"
    /\ \E atf_replies \in VerReplySeqs, uefi_replies \in VerReplySeqs :
         LET cur_atf_ver == GetVer("ATF", atf_replies).val
             cur_uefi_ver == GetVer("UEFI", uefi_replies).val
             seen == [du EXCEPT !.cur_atf = cur_atf_ver]
         IN  du' = IF du.cfg.skip_same_version /\ Contains(ImageAtfVer, TextOf(cur_atf_ver))
                   THEN Finish([seen EXCEPT !.skip = "version"], Ret("None"))
                   ELSE [seen EXCEPT !.pc = "rshim_read", !.step = 1]
    /\ UNCHANGED <<wt, hs, gv, lg, mn, vc, hp, wf, ak, cm>>

\* try_enable_rshim_on_bmc, lines 1136, 1141, 1151: the step-th read of the state;
\* and lines 1302, 1436, 1632 when the third read shows it disabled.
DuRshimRead ==
    /\ du.pc = "rshim_read"
    /\ \E reply \in GetReplies, enabled \in {"True", "False", "missing"} :
         \* is_rshim_enabled_on_bmc, lines 1107-1119.
         LET o == Extract(reply, {200}, "None", enabled # "missing", enabled,
                          "Failed to extract BmcRShimEnabled")
             called == IF du.step = 1
                       THEN [du EXCEPT !.steps = Append(@, "try_enable_rshim_on_bmc")]
                       ELSE du
             read == [called EXCEPT !.rshim_seen = Append(@, o.val)]
         IN  du' = IF Raised(o) THEN Finish(called, o)
                   ELSE IF o.val = "True" THEN [read EXCEPT !.pc = ReturnTo(du.cfg, "rshim"), !.step = 0]
                   ELSE IF du.step < 3 THEN [read EXCEPT !.pc = "rshim_patch"]
                   ELSE Finish(read, ErrMsg("FAILED_TO_ENABLE_BMC_RSHIM",
                                            {"Please make sure rshim on Host side is disabled"}))
    /\ UNCHANGED <<wt, hs, gv, lg, mn, vc, hp, wf, ak, cm>>

\* A mutant of the retry: the second attempt enables again without disabling first.
DuRshimPatchNoDisable ==
    /\ du.pc = "rshim_patch"
    /\ \E first \in GetReplies :
         du' = After([du EXCEPT !.step = @ + 1], EnableRshimOnBmc(TRUE, first), "rshim_read")
    /\ UNCHANGED <<wt, hs, gv, lg, mn, vc, hp, wf, ak, cm>>

\* try_enable_rshim_on_bmc, lines 1139, 1147, 1149: enable after the first read,
\* disable and then enable after the second.
DuRshimPatch ==
    /\ du.pc = "rshim_patch"
    /\ \E first \in GetReplies, second \in GetReplies :
         LET a == EnableRshimOnBmc(du.step = 1, first)
             b == EnableRshimOnBmc(TRUE, second)
             next == [du EXCEPT !.step = @ + 1]
         IN  du' = IF du.step = 1 \/ Raised(a.outcome) THEN After(next, a, "rshim_read")
                   ELSE After(After(next, a, "rshim_read"), b, "rshim_read")
    /\ UNCHANGED <<wt, hs, gv, lg, mn, vc, hp, wf, ak, cm>>

\* update_bundle, line 1438.
DuDisplayLevel ==
    /\ du.pc = "display_level"
    /\ \E rc_zero \in BOOLEAN :
         LET o == RunCommandOnBmc(rc_zero, TRUE)
         IN  du' = IF Raised(o) THEN Finish(du, o)
                   ELSE IF du.cfg.lfwp THEN [du EXCEPT !.pc = "lfwp_enable"]
                   ELSE [du EXCEPT !.pc = "select_protocol"]
    /\ UNCHANGED <<wt, hs, gv, lg, mn, vc, hp, wf, ak, cm>>

\* update_bundle, lines 1440-1441.
DuLfwpEnable ==
    /\ du.pc = "lfwp_enable"
    /\ \E reply \in GetReplies : du' = After(du, SetRuntimeRshim(TRUE, reply), "select_protocol")
    /\ UNCHANGED <<wt, hs, gv, lg, mn, vc, hp, wf, ak, cm>>

\* simple_update, lines 482-504.
DuSelectProtocol ==
    /\ du.pc = "select_protocol"
    /\ \E reply \in GetReplies, present \in BOOLEAN, advertised \in (SUBSET {"SCP", "HTTP", "HTTPS"}) :
         \* get_simple_update_protocols: the read of the advertised protocols.
         LET g == Extract(reply, {200}, "None", present, "protocols",
                          "Failed to extract SimpleUpdate protocols")
             p == SelectProtocol(du.cfg.bfb_update_protocol, advertised)
             called == [du EXCEPT !.steps = Append(@, "simple_update")]
             read == [called EXCEPT !.advertised = advertised,
                                    !.protocols = advertised \cap {"HTTP", "SCP"}]
         IN  du' = IF Raised(g) THEN Finish(called, g)
                   ELSE IF Raised(p) THEN Finish(read, p)
                   ELSE [read EXCEPT !.pc = "transport", !.protocol = p.val]
    /\ UNCHANGED <<wt, hs, gv, lg, mn, vc, hp, wf, ak, cm>>

\* simple_update line 506 and _start_and_wait_simple_update_task, lines 1613-1621:
\* the transport is set up, the job submitted and _wait_task called on it.
DuSimpleUpdate ==
    /\ du.pc = "transport"
    /\ \E setup_ok \in BOOLEAN, key_reply \in GetReplies, has_key \in BOOLEAN,
          post_reply \in PushReplies, has_handle \in BOOLEAN :
         LET s == SimpleUpdateByProtocol(du.protocol, du.cfg.module, setup_ok, key_reply,
                                         has_key, post_reply, has_handle)
         IN  IF Raised(s.outcome)
             THEN du' = [After(du, s, "done") EXCEPT !.setup = du.protocol] /\ wt' = wt
             ELSE /\ du' = [After(du, s, "su_wait") EXCEPT !.waits = Append(@, "own"),
                                                           !.setup = du.protocol]
                  /\ wt' = NewWaitTask("own", 20 * 60, 2, du.protocol)
    /\ UNCHANGED <<hs, gv, lg, mn, vc, hp, wf, ak, cm>>

\* A mutant of _start_and_wait_simple_update_task: an error of the poll is
\* swallowed.
DuSimpleWaitDoneGoOn ==
    /\ du.pc = "su_wait"
    /\ wt.pc = "done"
    /\ LET seen == [du EXCEPT !.marker_seen = MsgIdentical \in wt.task_state.message,
                               !.steps = Append(@, "_wait_task")]
       IN  du' = [seen EXCEPT !.pc = ReturnTo(du.cfg, "simple_update")]
    /\ wt' = Idle
    /\ UNCHANGED <<hs, gv, lg, mn, vc, hp, wf, ak, cm>>

\* Line 1621: _wait_task has ended; what it returned is not used.
DuSimpleWaitDone ==
    /\ du.pc = "su_wait"
    /\ wt.pc = "done"
    /\ LET seen == [du EXCEPT !.marker_seen = MsgIdentical \in wt.task_state.message,
                               !.steps = Append(@, "_wait_task")]
           \* update_bundle, lines 1445-1446: without lfwp the boot-readiness wait follows.
           back == IF du.cfg.module = "BUNDLE" /\ ~du.cfg.lfwp
                   THEN [seen EXCEPT !.steps = Append(@, "_wait_for_dpu_ready")]
                   ELSE seen
       IN  du' = IF Raised(wt.ret) THEN Finish(seen, wt.ret)
                 ELSE [back EXCEPT !.pc = ReturnTo(du.cfg, "simple_update")]
    /\ wt' = Idle
    /\ UNCHANGED <<hs, gv, lg, mn, vc, hp, wf, ak, cm>>

\* update_bios, lines 1305-1314; _wait_for_bios_ready swallows nothing it needs to:
\* get_ver never raises.
DuBiosVerify ==
    /\ du.pc = "bios_verify"
    /\ \E atf_replies \in VerReplySeqs :
         LET new_atf_ver == GetVer("ATF", atf_replies).val
         IN  du' = IF ~Contains(ImageAtfVer, TextOf(new_atf_ver))
                   THEN Finish([du EXCEPT !.new_ver = new_atf_ver],
                               ErrMsg("NEW_VERION_CHECK_FAILED", {"New BIOS version is not the version we want"}))
                   ELSE Finish([du EXCEPT !.new_ver = new_atf_ver], Ret("True"))
    /\ UNCHANGED <<wt, hs, gv, lg, mn, vc, hp, wf, ak, cm>>

\* send_reset_bios: line 1638 of update_conf, lines 1449-1452 of update_bundle
\* (_wait_for_dpu_ready raises nothing).
DuSendResetBios ==
    /\ du.pc = "reset_bios"
    /\ \E reply \in GetReplies, power_reply \in GetReplies, has_state \in BOOLEAN :
         LET s == SendResetBios(reply, power_reply, has_state)
         IN  du' = After([du EXCEPT !.steps = @ \o (IF du.cfg.module = "CONFIG" \/ Raised(s.outcome)
                                                    THEN <<"send_reset_bios">>
                                                    ELSE <<"send_reset_bios", "_wait_for_dpu_ready">>)],
                         s, IF du.cfg.module = "CONFIG" THEN "reboot" ELSE "bundle_new_vers")
    /\ UNCHANGED <<wt, hs, gv, lg, mn, vc, hp, wf, ak, cm>>

\* update_bundle, lines 1432-1433.
DuBundleOldVers ==
    /\ du.pc = "bundle_old_vers"
    /\ \E list_reply \in GetReplies, members \in {"missing", "no_bmc", "with_bmc"}, ver_reply \in VerReplies :
         LET o == AllVersionsBmc(list_reply, members, ver_reply)
         IN  du' = IF Raised(o) THEN Finish(du, o)
                   ELSE [du EXCEPT !.pc = "rshim_read", !.step = 1, !.old_ver = o.val]
    /\ UNCHANGED <<wt, hs, gv, lg, mn, vc, hp, wf, ak, cm>>

\* update_bundle, lines 1443-1445 and 1456: LFWP is disabled and the rshim log read.
DuLfwpDisable ==
    /\ du.pc = "lfwp_disable"
    /\ \E reply \in GetReplies :
         du' = [After(du, SetRuntimeRshim(FALSE, reply), "bundle_misc") EXCEPT !.elapsed = 0]
    /\ UNCHANGED <<wt, hs, gv, lg, mn, vc, hp, wf, ak, cm>>

\* update_bundle, lines 1456-1465: one read of the rshim log and the test of the loop.
DuBundleMisc ==
    /\ du.pc = "bundle_misc"
    /\ \E rc_zero \in BOOLEAN, finished \in BOOLEAN :
         LET o == RunCommandOnBmc(rc_zero, TRUE)
         IN  du' = IF Raised(o) THEN Finish(du, o)
                   ELSE IF finished \/ du.elapsed > (30 * 60)
                   THEN [du EXCEPT !.pc = "bundle_new_vers", !.elapsed = 0]
                   ELSE [du EXCEPT !.elapsed = @ + (60)]
    /\ UNCHANGED <<wt, hs, gv, lg, mn, vc, hp, wf, ak, cm>>

\* update_bundle, lines 1470-1482.
DuBundleNewVers ==
    /\ du.pc = "bundle_new_vers"
    /\ \E list_reply \in GetReplies, members \in {"missing", "no_bmc", "with_bmc"}, ver_reply \in VerReplies :
         LET o == AllVersionsBmc(list_reply, members, ver_reply)
         IN  du' = IF Raised(o) THEN Finish(du, o)
                   ELSE Finish([du EXCEPT !.new_ver = o.val,
                                           !.reqs = @ \o SelRequests(Str(TextOf(du.old_ver)), Str(TextOf(o.val)))],
                               Ret("True"))
    /\ UNCHANGED <<wt, hs, gv, lg, mn, vc, hp, wf, ak, cm>>

(***************************************************************************)
(* do_update for every configuration, with _wait_task running in its frame *)
(* when do_update calls it.                                                *)
(***************************************************************************)
Init ==
    /\ du \in {NewDoUpdate(cfg) : cfg \in Configs}
    /\ wt = Idle /\ hs = Idle /\ gv = Idle /\ lg = Idle /\ mn = Idle /\ vc = Idle
    /\ hp = Idle /\ wf = Idle /\ ak = Idle /\ cm = Idle

Next ==
    \/ DuCheckAvailability \/ DuBackgroundCopy \/ DuBackgroundWait
    \/ DuGetLastTask \/ DuPriorWaitDone \/ DuRecheck \/ DuDispatch
    \/ DuLfwpCheck \/ DuValidate \/ DuServiceReady \/ DuServiceWait \/ DuImageCheck
    \/ DuOldVer \/ DuBcBackgroundCopy \/ DuPush \/ DuBcWaitDone
    \/ DuRebootBmc \/ DuRebootCec \/ DuNewVer
    \/ DuFru
    \/ DuBiosVersions \/ DuRshimRead \/ DuRshimPatch \/ DuDisplayLevel \/ DuLfwpEnable
    \/ DuSelectProtocol \/ DuSimpleUpdate \/ DuSimpleWaitDone \/ DuBiosVerify
    \/ DuSendResetBios \/ DuBundleOldVers \/ DuLfwpDisable \/ DuBundleMisc
    \/ DuBundleNewVers
    \/ WaitTaskLoop \/ WaitTaskRunOut \/ WaitTaskLoopEnd \/ WaitTaskCheck

Spec == Init /\ [][Next]_vars

\* do_update runs in one thread and blocks only in calls that return: a step that
\* can be taken is taken.
SpecLive == Spec /\ WF_vars(Next)

(***************************************************************************)
(* simple_update_by_http and the file-server process: the orchestrator and *)
(* the worker run concurrently and share the pipe made in __init__.        *)
(* orch and worker are the positions of the two processes, clock the       *)
(* seconds the orchestrator has spent in select, pipe the writes not yet   *)
(* read, bound the port the worker's socket got (0: none), port            *)
(* _local_http_server_port (-1: None).                                     *)
(***************************************************************************)
\* str(port), line 584 and line 617.
RECURSIVE PortText(_)
PortText(n) ==
    LET digit == <<"0", "1", "2", "3", "4", "5", "6", "7", "8", "9">>[(n % 10) + 1]
    IN  IF n < 10 THEN <<digit>> ELSE Append(PortText(n \div 10), digit)

\* The requests the worker serves that are followed one by one.
MaxServed == 2

InitHttp ==
    /\ hp \in {[orch |-> "create", worker |-> "none", module |-> m, bound |-> 0, pipe |-> <<>>,
                clock |-> 0, port |-> -1, writes |-> 0, reads |-> 0, served |-> 0,
                reqs |-> <<>>, outcome |-> NoOutcome] : m \in {"BIOS", "CONFIG", "BMC"}}
    /\ wt = Idle /\ hs = Idle /\ gv = Idle /\ lg = Idle /\ mn = Idle /\ du = Idle /\ vc = Idle
    /\ wf = Idle /\ ak = Idle /\ cm = Idle

\* create_http_server_process, lines 595-598.
CreateHttpServerProcess ==
    /\ hp.orch = "create"
    /\ hp' = [hp EXCEPT !.orch = "select", !.worker = "start"]
    /\ UNCHANGED <<wt, hs, gv, lg, mn, du, vc, wf, ak, cm>>

\* http_server, lines 566-582: the worker binds port 0 and gets an ephemeral port,
\* or an exception (no local address, bind refused) ends the process.
HttpServerBind ==
    /\ hp.worker = "start"
    /\ \E port \in {0, 1024, 40000, 65535} :
         hp' = IF port = 0 THEN [hp EXCEPT !.worker = "dead"]
               ELSE [hp EXCEPT !.worker = "bound", !.bound = port]
    /\ UNCHANGED <<wt, hs, gv, lg, mn, du, vc, wf, ak, cm>>

\* http_server, lines 583-585: the one write to the pipe.
HttpServerWritePort ==
    /\ hp.worker = "bound"
    /\ hp' = [hp EXCEPT !.worker = "serving", !.pipe = Append(@, PortText(hp.bound)),
                        !.writes = @ + 1]
    /\ UNCHANGED <<wt, hs, gv, lg, mn, du, vc, wf, ak, cm>>

\* http_server, line 586: serve_forever handles a request of the controller.
HttpServeForever ==
    /\ hp.worker = "serving"
    /\ hp.served < MaxServed
    /\ hp' = [hp EXCEPT !.served = @ + 1]
    /\ UNCHANGED <<wt, hs, gv, lg, mn, du, vc, wf, ak, cm>>

\* A second passes while the orchestrator is in select on the empty pipe, line 604.
HttpSelectTick ==
    /\ hp.orch = "select"
    /\ hp.pipe = <<>>
    /\ hp.clock < 60
    /\ hp' = [hp EXCEPT !.clock = @ + 1]
    /\ UNCHANGED <<wt, hs, gv, lg, mn, du, vc, wf, ak, cm>>

\* A mutant of read_http_server_port: it does not wait for the pipe.
ReadHttpServerPortNoWait ==
    /\ hp.orch = "select"
    /\ hp' = IF hp.pipe # <<>>
             THEN [hp EXCEPT !.orch = "post", !.pipe = <<>>, !.reads = @ + 1,
                             !.port = IntOf(hp.pipe[1])]
             ELSE [hp EXCEPT !.orch = "post", !.port = 0]
    /\ UNCHANGED <<wt, hs, gv, lg, mn, du, vc, wf, ak, cm>>

\* read_http_server_port, lines 601-610: select returns when the pipe is readable
\* or after 60 seconds; os.read takes what was written and int() converts it.
ReadHttpServerPort ==
    /\ hp.orch = "select"
    /\ hp.pipe # <<>> \/ hp.clock >= 60
    /\ hp' = IF hp.pipe # <<>>
             THEN [hp EXCEPT !.orch = "post", !.pipe = <<>>, !.reads = @ + 1,
                             !.port = IntOf(hp.pipe[1])]
             ELSE [hp EXCEPT !.orch = "done", !.outcome = Err("FAILED_TO_START_HTTP_SERVER")]
    /\ UNCHANGED <<wt, hs, gv, lg, mn, du, vc, wf, ak, cm>>

\* simple_update_by_http, lines 616-617: the SimpleUpdate request with the port
\* in its ImageURI.
HttpSimpleUpdate ==
    /\ hp.orch = "post"
    /\ \E post_reply \in PushReplies, has_handle \in BOOLEAN :
         LET s == SimpleUpdateImpl(hp.module, post_reply, has_handle)
         IN  hp' = [hp EXCEPT !.orch = "done", !.outcome = s.outcome,
                              !.reqs = @ \o [k \in 1..Len(s.reqs) |->
                                               [name |-> s.reqs[k], uri_port |-> PortText(hp.port)]]]
    /\ UNCHANGED <<wt, hs, gv, lg, mn, du, vc, wf, ak, cm>>

NextHttp ==
    \/ CreateHttpServerProcess \/ HttpServerBind \/ HttpServerWritePort \/ HttpServeForever
    \/ HttpSelectTick \/ ReadHttpServerPort \/ HttpSimpleUpdate

SpecHttp == InitHttp /\ [][NextHttp]_vars

(***************************************************************************)
(* The waits after a reset: _wait_for_bmc_on, _wait_for_bios_ready,        *)
(* _wait_for_dpu_ready and _wait_for_system_power_on, one loop iteration   *)
(* per step.  cur is int(time.time()) - start; the clock advances by the   *)
(* sleeps of the loop.                                                     *)
(***************************************************************************)
\* The frame on entry: timeout and sleep are the loop's own figures (lines 743 and
\* 752, 1161 and 1175, 1362 and 1375, 1550 and 1567).  _wait_for_system_power_on
\* reads the power state once before its loop (line 1549).
InitWaits ==
    /\ wf \in {[pc |-> IF k[1] = "_wait_for_system_power_on" THEN "pre" ELSE "loop",
                 kind |-> k[1], timeout |-> k[2], sleep |-> k[3], cur |-> 0,
                 pre_state |-> "", reads |-> 0, ready |-> FALSE, ret |-> NoOutcome] :
                k \in {<<"_wait_for_bmc_on", 60 * 3, 4>>, <<"_wait_for_bios_ready", 60 * 3, 4>>,
                       <<"_wait_for_dpu_ready", 60 * 40, 30>>,
                       <<"_wait_for_system_power_on", 60 * 3, 4>>}}
    /\ wt = Idle /\ hs = Idle /\ gv = Idle /\ lg = Idle /\ mn = Idle /\ du = Idle /\ vc = Idle
    /\ hp = Idle /\ ak = Idle /\ cm = Idle

\* _wait_for_bmc_on, lines 746-761: the sleep comes before the two reads, and any
\* exception of a read starts the next iteration.
WaitForBmcOn ==
    /\ wf.pc = "loop" /\ wf.kind = "_wait_for_bmc_on"
    /\ IF wf.cur > wf.timeout
       THEN wf' = [wf EXCEPT !.pc = "done", !.ret = Ret("None")]
       ELSE \E bmc \in VerReplies, cec \in VerReplies :
              IF Raised(GetVerOnce("BMC", bmc)) \/ Raised(GetVerOnce("CEC", cec))
              THEN wf' = [wf EXCEPT !.cur = @ + wf.sleep, !.reads = 1]
              ELSE wf' = [wf EXCEPT !.pc = "done", !.cur = @ + wf.sleep, !.reads = 1,
                                    !.ready = TRUE, !.ret = Ret("None")]
    /\ UNCHANGED <<wt, hs, gv, lg, mn, du, vc, hp, ak, cm>>

\* _wait_for_bios_ready, lines 1164-1175: get_ver('ATF') gives '' when no read
\* succeeded.
WaitForBiosReady ==
    /\ wf.pc = "loop" /\ wf.kind = "_wait_for_bios_ready"
    /\ IF wf.cur > wf.timeout
       THEN wf' = [wf EXCEPT !.pc = "done", !.ret = Ret("None")]
       ELSE \E replies \in VerReplySeqs :
              LET ver == GetVer("ATF", replies)
              IN  IF Raised(ver) THEN wf' = [wf EXCEPT !.pc = "done", !.reads = 1, !.ret = ver]
                  ELSE IF ver.val # ""
                  THEN wf' = [wf EXCEPT !.pc = "done", !.reads = 1, !.ready = TRUE,
                                        !.ret = Ret("None")]
                  ELSE wf' = [wf EXCEPT !.cur = @ + wf.sleep, !.reads = 1]
    /\ UNCHANGED <<wt, hs, gv, lg, mn, du, vc, hp, ak, cm>>

\* _wait_for_dpu_ready, lines 1364-1375, over get_dpu_boot_state, lines 1317-1341:
\* '' when the read fails; when the body has no OemLastState, a _wait_for_bmc_on
\* (which raises nothing) and one more read, whose failure leaves ''.
WaitForDpuReady ==
    /\ wf.pc = "loop" /\ wf.kind = "_wait_for_dpu_ready"
    /\ IF wf.cur > wf.timeout
       THEN wf' = [wf EXCEPT !.pc = "done", !.ret = Ret("None")]
       ELSE \E reply \in GetReplies, again \in GetReplies,
               last_state \in {<<>>, <<"OsIsRunning">>, <<"OsBootStarted">>},
               retry_state \in {<<>>, <<"OsIsRunning">>} :
              LET state == IF Raised(CallOutcome(reply, {200}, "None")) THEN ""
                           ELSE IF last_state # <<>> THEN last_state[1]
                           ELSE IF Raised(CallOutcome(again, {200}, "None")) \/ retry_state = <<>>
                           THEN ""
                           ELSE retry_state[1]
              IN  IF state = "OsIsRunning"
                  THEN wf' = [wf EXCEPT !.pc = "done", !.reads = 1, !.ready = TRUE,
                                        !.ret = Ret("None")]
                  ELSE wf' = [wf EXCEPT !.cur = @ + wf.sleep, !.reads = 1]
    /\ UNCHANGED <<wt, hs, gv, lg, mn, du, vc, hp, ak, cm>>

\* _wait_for_system_power_on, lines 1548-1569: the read before the loop and the
\* read of each iteration are outside any try.
WaitForSystemPowerOn ==
    /\ wf.pc \in {"pre", "loop"} /\ wf.kind = "_wait_for_system_power_on"
    /\ IF wf.pc = "loop" /\ wf.cur > wf.timeout
       THEN wf' = [wf EXCEPT !.pc = "done", !.ret = Ret("None")]
       ELSE \E reply \in GetReplies, power_state \in {<<>>, <<"On">>, <<"Paused">>, <<"PoweringOn">>} :
              LET new_state == GetSystemPowerState(reply, power_state)
              IN  IF Raised(new_state)
                  THEN wf' = [wf EXCEPT !.pc = "done", !.ret = new_state]
                  ELSE IF wf.pc = "pre"
                  THEN wf' = [wf EXCEPT !.pc = "loop", !.pre_state = new_state.val]
                  ELSE IF new_state.val # wf.pre_state /\ new_state.val = "On"
                  THEN wf' = [wf EXCEPT !.pc = "done", !.reads = 1, !.ready = TRUE,
                                        !.ret = Ret("None")]
                  ELSE wf' = [wf EXCEPT !.cur = @ + wf.sleep, !.reads = 1,
                                        !.pre_state = new_state.val]
    /\ UNCHANGED <<wt, hs, gv, lg, mn, du, vc, hp, ak, cm>>

NextWaits == WaitForBmcOn \/ WaitForBiosReady \/ WaitForDpuReady \/ WaitForSystemPowerOn

SpecWaits == InitWaits /\ [][NextWaits]_vars

(***************************************************************************)
(* confirm_ssh_key_with_bmc over the local ~/.ssh/authorized_keys: the     *)
(* file is a sequence of lines with permission bits, a key a sequence of   *)
(* characters.                                                             *)
(***************************************************************************)
\* set_bmc_key_into_local_authorized_keys, lines 1251-1267.  os.access(W_OK) holds
\* for root and for an owner whose write bit (S_IWUSR, 0o200) is set; otherwise the
\* bit is added before the append and the old mode put back after it.  write_ok:
\* open() and write() succeed; when they raise, the function is left at once.
SetBmcKeyIntoLocalAuthorizedKeys(bmc_key, file, mode, root, write_ok) ==
    LET writable == root \/ (mode \div 128) % 2 = 1
        opened == IF writable THEN mode ELSE mode + 128
    IN  IF ~write_ok THEN [file |-> file, mode |-> opened, outcome |-> Exc("OSError")]
        ELSE [file |-> Append(file, bmc_key), mode |-> mode, outcome |-> Ret("None")]

\* The invocations of the tool that are followed.
MaxInvocations == 2

\* Before the first invocation: the file holds no controller key twice; its mode is
\* 0o600, 0o400, 0o644 or 0o444.
InitKeys ==
    /\ ak \in [pc : {"start"}, local_keys : {0}, invocations : {0}, root : BOOLEAN,
                file : {<<>>, <<<<"a", "b">>>>, <<<<"a">>, <<"c">>>>,
                        <<<<"x", "a", "b", "y">>>>},
                mode : {384, 256, 420, 292}, outcome : {NoOutcome}]
    /\ wt = Idle /\ hs = Idle /\ gv = Idle /\ lg = Idle /\ mn = Idle /\ du = Idle /\ vc = Idle
    /\ hp = Idle /\ wf = Idle /\ cm = Idle

\* get_local_user_ssh_pub_key, lines 1179-1200, at line 1271: an invocation starts
\* with the list of the local host keys, or fails without one.
GetLocalUserSshPubKey ==
    /\ ak.pc \in {"start", "done"}
    /\ ak.invocations < MaxInvocations
    /\ \E n \in 0..2 :
         ak' = IF n = 0
               THEN [ak EXCEPT !.pc = "done", !.invocations = @ + 1,
                               !.outcome = Err("FAILED_TO_GET_LOCAL_KEY")]
               ELSE [ak EXCEPT !.pc = "loop", !.invocations = @ + 1, !.local_keys = n,
                               !.outcome = NoOutcome]
    /\ UNCHANGED <<wt, hs, gv, lg, mn, du, vc, hp, wf, cm>>

\* confirm_ssh_key_with_bmc, lines 1272-1275: one local key is exchanged
\* (exchange_ssh_key_with_bmc, lines 1203-1239) and the controller's key appended
\* when grep does not find it.
ConfirmSshKeyWithBmc ==
    /\ ak.pc = "loop"
    /\ \E reply \in GetReplies, has_key \in BOOLEAN, write_ok \in BOOLEAN,
          bmc_key \in {<<"a">>, <<"a", "b">>, <<"c">>} :
         LET k == Extract(reply, {200}, "None", has_key, bmc_key, "Failed to extract BMC SSH key")
             w == SetBmcKeyIntoLocalAuthorizedKeys(bmc_key, ak.file, ak.mode, ak.root, write_ok)
             next == [ak EXCEPT !.local_keys = @ - 1,
                                !.pc = IF ak.local_keys = 1 THEN "done" ELSE "loop",
                                !.outcome = IF ak.local_keys = 1 THEN Ret("None") ELSE NoOutcome]
         IN  ak' = IF Raised(k) THEN [ak EXCEPT !.pc = "done", !.outcome = k]
                   \* is_bmc_key_in_local_authorized_keys, lines 1242-1248: grep "<key>"
                   \* <file> exits with 0 when some line of the file contains the key.
                   ELSE IF \E n \in 1..Len(ak.file) : Occurs(bmc_key, ak.file[n]) THEN next
                   ELSE IF Raised(w.outcome)
                   THEN [ak EXCEPT !.pc = "done", !.outcome = w.outcome, !.mode = w.mode]
                   ELSE [next EXCEPT !.file = w.file, !.mode = w.mode]
    /\ UNCHANGED <<wt, hs, gv, lg, mn, du, vc, hp, wf, cm>>

NextKeys == GetLocalUserSshPubKey \/ ConfirmSshKeyWithBmc

SpecKeys == InitKeys /\ [][NextKeys]_vars

(***************************************************************************)
(* run_command_on_bmc as _set_bmc_rshim_display_level and                  *)
(* get_bmc_rshim_misc call it.  Texts are sequences: the credentials are   *)
(* sequences of characters, the fixed parts of a text one element each.    *)
(***************************************************************************)
\* The engine before one of the two calls, with its four credentials.
InitCommand ==
    /\ cm \in [pc : {"call"},
               username : {<<"x">>, <<"u", "s", "e", "r">>},
               password : {<<"y">>, <<"x", "y">>},
               ssh_username : {<<"x">>, <<"y", "x">>},
               ssh_password : {<<"y">>, <<"x", "x", "y">>, <<"u", "s", "e", "r">>},
               command : {"echo DISPLAY_LEVEL 2 > /dev/rshim0/misc", "cat /dev/rshim0/misc"},
               logged : {<<>>}, console : {<<>>}, message : {<<>>}, outcome : {NoOutcome}]
    /\ wt = Idle /\ hs = Idle /\ gv = Idle /\ lg = Idle /\ mn = Idle /\ du = Idle /\ vc = Idle
    /\ hp = Idle /\ wf = Idle /\ ak = Idle

\* run_command_on_bmc, lines 548-562.  Both callers give exit_on_error=False to
\* str.format, not to run_command_on_bmc, so the parameter has its default, True.
RunCommandOnBmcCall ==
    /\ cm.pc = "call"
    /\ \E rc_zero \in BOOLEAN, output \in {<<>>, <<"Permission denied, please try again.">>} :
         LET exit_on_error == TRUE
             \* The command line of lines 869-875 and 880-886: "sshpass -p {password}
             \* {ssh} {username}@{ip} '{command}'".
             command == <<"sshpass -p ">> \o cm.ssh_password \o <<" ssh ">> \o cm.ssh_username
                        \o <<"@ip '", cm.command, "'">>
             written(msg) == LogData(msg, cm.username, cm.password, cm.ssh_username,
                                     cm.ssh_password)
             logged == written(<<"Run command on BMC: ">> \o command)
                       \o written(<<"Output: ">> \o output \o <<"\nError: ", "rc">>)
             failed == [cm EXCEPT !.pc = "done", !.logged = logged]
         IN  cm' = IF rc_zero THEN [failed EXCEPT !.outcome = Ret("output")]
                   ELSE IF ~exit_on_error
                   THEN [failed EXCEPT !.outcome = Ret("output"),
                                       !.console = <<"Error: Failed to run command on BMC: ">>
                                                   \o output]
                   ELSE [failed EXCEPT !.outcome = RunCommandOnBmc(rc_zero, exit_on_error),
                                       !.message = <<"Command \"">> \o command
                                                   \o <<"\" failed with return code ", "rc">>]
    /\ UNCHANGED <<wt, hs, gv, lg, mn, du, vc, hp, wf, ak>>

NextCommand == RunCommandOnBmcCall

SpecCommand == InitCommand /\ [][NextCommand]_vars

\* C4 as claimed: a workflow declares 'skip - same version' only when the last
\* sample of its job had the identical-image marker, never from a comparison of
\* versions.
C4_SkipOnlyOnMarker == du.skip # "none" => du.marker_seen

\* C4 amended: the skip is declared either by update_bmc_or_cec after the poll of
\* its own job ended on a sample with the marker, or by update_bios, before any
\* request, when skip_same_version is set and the boot-firmware version read (the
\* empty string of a failed read included) is a substring of the version embedded in
\* the image; update_conf, update_bundle and update_oem_fru never declare it.
C4_SkipOnMarkerOrBiosMatch ==
    /\ du.skip = "job" =>
         /\ du.cfg.module \in {"BMC", "CEC"}
         /\ du.marker_seen
         /\ du.waits # <<>> /\ du.waits[Len(du.waits)] = "own"
    /\ du.skip = "version" =>
         /\ du.cfg.module = "BIOS" /\ du.cfg.skip_same_version
         /\ Contains(ImageAtfVer, TextOf(du.cur_atf))
         /\ du.reqs = <<>> /\ ~du.marker_seen
    /\ du.skip # "none" => (du.pc = "done" /\ du.outcome = Ret("None"))

C4_Witness ==
    /\ du.pc = "done" /\ du.skip = "job" /\ du.marker_seen
    /\ du.cfg.module = "BMC" /\ du.reqs = <<"multipart push">>

\* The number of times _wait_task was applied to a job of this kind.
Count(waits, kind) == Cardinality({k \in 1..Len(waits) : waits[k] = kind})

\* C5 as claimed: a do_update that completes has applied _wait_task to exactly one
\* job, counting the prior in-flight job and the job it submitted.
C5_ExactlyOneJob == (du.pc = "done" /\ ~Raised(du.outcome)) => Len(du.waits) = 1

\* C5 amended: do_update applies _wait_task at most twice, at most once to a prior
\* job (only when the first inspection showed it Running) and after that at most
\* once to the job it submitted; update_oem_fru submits no job; a BMC, CEC, CONFIG
\* or BUNDLE update that completes, and a BIOS update that completes without the
\* version short-circuit, has polled the job it submitted.
C5_AtMostPriorAndOwn ==
    /\ Count(du.waits, "prior") <= 1 /\ Count(du.waits, "own") <= 1
    /\ Len(du.waits) = 2 => du.waits = <<"prior", "own">>
    /\ Count(du.waits, "prior") = 1 => du.first_state = "Running"
    /\ du.cfg.module = "FRU" => Count(du.waits, "own") = 0
    /\ (/\ du.pc = "done" /\ ~Raised(du.outcome)
        /\ du.cfg.module \in {"BMC", "CEC", "BIOS", "CONFIG", "BUNDLE"}
        /\ du.skip # "version") => Count(du.waits, "own") = 1

C5_Witness ==
    /\ du.pc = "done" /\ du.outcome = Ret("True")
    /\ du.waits = <<"prior", "own">> /\ du.cfg.module = "BUNDLE"

\* C6: every failure that leaves do_update is an Err_Exception whose err_num is a
\* member of Err_Num.
C6_TypedFailures ==
    (du.pc = "done" /\ Raised(du.outcome))
        => (du.outcome.kind = "Err_Exception" /\ du.outcome.val \in ErrNumNames)

\* The push requests: the multi-part push, the raw-stream push and SimpleUpdate.
C14_Pushes(reqs) ==
    {k \in 1..Len(reqs) : reqs[k] \in {"multipart push", "raw push", "SimpleUpdate"}}

\* C14: in the BMC, CEC, BIOS and CONFIG workflows an image that fails the check for
\* the selected module ends the workflow with FW_FILE_NOT_MATCH_MODULE at the check,
\* and no push request is sent before or after it.
C14_MismatchBeforePush ==
    /\ [](du.pc # "idle" /\ du.cfg.module \in {"BMC", "CEC", "BIOS", "CONFIG"}
          /\ ~IsFwFileFor(du.cfg.module, du.cfg.image)
          => C14_Pushes(du.reqs) = {})
    /\ [][du.pc = "image_check" /\ ~IsFwFileFor(du.cfg.module, du.cfg.image)
          => /\ du'.pc = "done"
             /\ du'.outcome = Err("FW_FILE_NOT_MATCH_MODULE")
             /\ du'.reqs = du.reqs]_vars

\* A CONFIG update with a boot-firmware image that has no configuration signature.
C14_Witness ==
    /\ du.pc = "done" /\ du.outcome = Err("FW_FILE_NOT_MATCH_MODULE")
    /\ du.cfg.module = "CONFIG" /\ du.cfg.image = "bios" /\ du.reqs = <<>>

\* C15: when the forced protocol is not among the advertised protocols that are HTTP
\* or SCP, simple_update fails with NOT_SUPPORT_SIMPLE_UPDATE_PROTOCOL, starts no
\* transport setup and sends no SimpleUpdate request.
C15_ForcedProtocolRejected ==
    (/\ du.pc # "idle"
     /\ du.protocols # {"<unbound>"}
     /\ du.cfg.bfb_update_protocol # "None"
     /\ du.cfg.bfb_update_protocol \notin du.protocols)
    => /\ du.pc = "done"
       /\ du.outcome = Err("NOT_SUPPORT_SIMPLE_UPDATE_PROTOCOL")
       /\ du.setup = "none"
       /\ \A k \in 1..Len(du.reqs) : du.reqs[k] \notin {"SimpleUpdate", "PublicKeyExchange"}
       /\ \A k \in 1..Len(du.waits) : du.waits[k] # "own"

\* SCP forced on a BIOS update while the controller offers HTTP only.
C15_Witness ==
    /\ du.pc = "done" /\ du.outcome = Err("NOT_SUPPORT_SIMPLE_UPDATE_PROTOCOL")
    /\ du.cfg.module = "BIOS" /\ du.cfg.bfb_update_protocol = "SCP"
    /\ du.protocols = {"HTTP"} /\ du.setup = "none"

\* What update_oem_fru must do in its step, given when an item is invalid: with an
\* invalid item at any position it fails with INVALID_INPUT_PARAMETER and sends
\* nothing; otherwise it sends exactly one PUT and completes only on status 200.
C16_Step(Invalid(_)) ==
    du.pc = "fru" =>
        IF \E k \in 1..Len(du.cfg.oem_fru) : Invalid(du.cfg.oem_fru[k])
        THEN /\ du'.pc = "done" /\ Raised(du'.outcome)
             /\ du'.outcome.val = "INVALID_INPUT_PARAMETER"
             /\ du'.reqs = du.reqs
        ELSE /\ du'.pc = "done"
             /\ du'.reqs = du.reqs \o <<"PUT Oem/Nvidia">>
             /\ du'.put_status # 200 => Raised(du'.outcome)
             /\ du'.put_status = 200 => du'.outcome = Ret("None")

C16_InvalidAsClaimed(item) ==
    \/ ~item.has_eq \/ item.colons # 1
    \/ item.value_len > 63
    \/ item.mfg_date /\ ~item.date_ok

C16_Invalid(item) ==
    \/ ~item.has_eq \/ item.colons # 1
    \/ item.value_len > 63
    \/ item.mfg_date /\ item.value_len > 0 /\ ~item.date_ok

\* C16 as claimed: the PUT is sent only after every item passed validation; an item
\* with a value longer than 63, without the Section:Key=Value shape or with an
\* invalid Product:ManufactureDate fails the workflow with INVALID_INPUT_PARAMETER
\* and nothing is sent; otherwise exactly one PUT is sent and a status other than 200
\* fails the workflow.
C16_NoPartialWrite == [][C16_Step(C16_InvalidAsClaimed)]_vars

\* C16 amended: as claimed, except that the date format is enforced on a non-empty
\* Product:ManufactureDate value only; an empty value passes validation.
C16_NoPartialWriteNonEmptyDate == [][C16_Step(C16_Invalid)]_vars

\* A valid item followed by one with a 64-character value: nothing was sent.
C16_Witness ==
    /\ du.pc = "done" /\ du.cfg.module = "FRU" /\ Len(du.cfg.oem_fru) = 2
    /\ du.cfg.oem_fru[1].value_len = 63 /\ du.cfg.oem_fru[2].value_len = 64
    /\ Raised(du.outcome) /\ du.outcome.val = "INVALID_INPUT_PARAMETER"
    /\ du.reqs = <<>>

\* The calls of a BMC update that runs to its end, in the order of the claim (the
\* check of the background copy comes between the read of the old version and the
\* push).
C17_Calls ==
    <<"get_ver old", "is_bmc_background_copy_in_progress", "update_bmc_fw", "_wait_task",
      "Manager.Reset", "_wait_for_bmc_on", "get_ver new", "_check_and_clear_sel_if_needed",
      "print versions">>

\* C17: a BMC update whose job ends Completed/OK/100 reads the old version, pushes,
\* polls, sends Manager.Reset, waits for the controller, reads the new version and
\* evaluates the event-log clear check on (old, new), in this order and each once,
\* and reports the pair: at any time the calls made are a prefix of this list, a run
\* that completes without a skip has made them all, nothing but the push and the
\* reset was sent before the check, and the clear is sent exactly when the old
\* version read before the push and the new one read after the reset lie on
\* different sides of BF-24.10-33.
C17_BmcStepOrder ==
    (du.pc # "idle" /\ du.cfg.module = "BMC") =>
        /\ Len(du.steps) <= Len(C17_Calls)
        /\ du.steps = SubSeq(C17_Calls, 1, Len(du.steps))
        /\ (du.pc = "done" /\ ~Raised(du.outcome) /\ du.skip = "none") =>
             /\ du.steps = C17_Calls
             /\ Count(du.waits, "own") = 1
             /\ du.old_ver # ""
             /\ Len(du.reqs) \in {2, 3}
             /\ du.reqs[1] \in {"multipart push", "raw push"}
             /\ du.reqs[2] = "Manager.Reset"
             /\ Len(du.reqs) = 3 => du.reqs[3] = "LogService.ClearLog"
             /\ Len(du.reqs) = 3 <=>
                  (C13_Sign(ParseBmcVersion(Str(TextOf(du.old_ver))), <<24, 10, 33>>) = -1)
                  # (C13_Sign(ParseBmcVersion(Str(TextOf(du.new_ver))), <<24, 10, 33>>) = -1)

\* An upgrade across the threshold: the log is cleared after the reset.
C17_Witness ==
    /\ du.pc = "done" /\ du.outcome = Ret("None") /\ du.cfg.module = "BMC"
    /\ du.steps = C17_Calls /\ du.waits = <<"own">>
    /\ du.old_ver = "BF-23.07-1" /\ du.new_ver = "BF-24.10-33"
    /\ du.reqs = <<"multipart push", "Manager.Reset", "LogService.ClearLog">>

\* C18: each of the six module workflows has seen the update service 'Enabled'
\* before it sends a state-changing request (push, SimpleUpdate, PATCH, PUT, POST);
\* do_update itself sends none before the workflow.
C18_ReadyBeforeWrite ==
    (du.pc # "idle" /\ du.cfg.module \in {"BMC", "CEC", "BIOS", "FRU", "CONFIG", "BUNDLE"}
     /\ du.reqs # <<>>)
    => du.service_ready

\* C19: do_update goes past the reachability probe only when the probe's GET
\* returned 200 or 401 (check_bmc_availability returned True); otherwise it ends at
\* the probe with an error, having sent nothing and run no workflow.
C19_ProbeGate ==
    /\ du.pc \notin {"idle", "availability", "done"} => du.probe = "True"
    /\ (du.pc = "done" /\ du.probe # "True") =>
         /\ Raised(du.outcome)
         /\ du.reqs = <<>> /\ du.waits = <<>> /\ du.steps = <<>> /\ ~du.service_ready

\* C20: when the last task is Running at the first inspection and a job is still
\* Running after the wait (the same job Running to the end of the wait, or a Running
\* job at the second inspection), do_update ends with BMC_BACKGROUND_BUSY and no
\* other error, and the module workflow is not started.
C20_StillRunningIsBusy ==
    (du.first_state = "Running" /\ (du.prior_running \/ du.recheck_running))
    => /\ du.pc = "done"
       /\ du.outcome.kind = "Err_Exception" /\ du.outcome.val = "BMC_BACKGROUND_BUSY"
       /\ du.reqs = <<>> /\ du.steps = <<>> /\ ~du.service_ready
       /\ Count(du.waits, "own") = 0

\* C22: every run of do_update ends, in normal completion or in a typed error (an
\* Err_Exception whose err_num is a member of Err_Num).
C22_TerminatesTyped ==
    <>(/\ du.pc = "done"
       /\ Raised(du.outcome) =>
             (du.outcome.kind = "Err_Exception" /\ du.outcome.val \in ErrNumNames))

\* The PATCH requests of try_enable_rshim_on_bmc among the requests sent.
C23_Patches(reqs) ==
    SelectSeq(reqs, LAMBDA r : r \in {"PATCH BmcRShimEnabled true", "PATCH BmcRShimEnabled false"})

C23_EnableDisableEnable ==
    <<"PATCH BmcRShimEnabled true", "PATCH BmcRShimEnabled false", "PATCH BmcRShimEnabled true">>

\* try_enable_rshim_on_bmc has returned: True on a read that showed the mode
\* enabled, False on a third read that showed it disabled.
C23_Returned(frame) ==
    /\ frame.rshim_seen # <<>>
    /\ \/ frame.rshim_seen[Len(frame.rshim_seen)] = "True"
       \/ Len(frame.rshim_seen) = 3

\* C23: try_enable_rshim_on_bmc reads the mode at most three times and stops at
\* the first read that shows it enabled; it sends no PATCH before the first read,
\* enable before the second, and disable then enable before the third; it returns
\* True exactly when one of the reads showed the mode enabled, and when it returns
\* False the BIOS, CONFIG and BUNDLE workflows end with FAILED_TO_ENABLE_BMC_RSHIM
\* without a SimpleUpdate request.
C23_RshimRetryPolicy ==
    LET seen == du.rshim_seen
        patches == C23_Patches(du.reqs)
    IN  /\ Len(seen) <= 3
        /\ \A k \in 1..Len(seen) : seen[k] = "True" => k = Len(seen)
        /\ Len(patches) <= 3
        /\ patches = SubSeq(C23_EnableDisableEnable, 1, Len(patches))
        /\ C23_Returned(du) =>
              Len(patches) = (CASE Len(seen) = 1 -> 0 [] Len(seen) = 2 -> 1 [] OTHER -> 3)
        /\ (C23_Returned(du) /\ seen[Len(seen)] # "True") =>
              /\ du.pc = "done"
              /\ du.outcome.kind = "Err_Exception"
              /\ du.outcome.val = "FAILED_TO_ENABLE_BMC_RSHIM"
              /\ \A k \in 1..Len(du.reqs) : du.reqs[k] # "SimpleUpdate"
        /\ (\E k \in 1..Len(du.reqs) : du.reqs[k] = "SimpleUpdate") =>
              (seen # <<>> /\ seen[Len(seen)] = "True")
        /\ (du.pc = "done" /\ du.outcome.val = "FAILED_TO_ENABLE_BMC_RSHIM") =>
              (seen = <<"False", "False", "False">> /\ patches = C23_EnableDisableEnable)

\* The third read shows the mode enabled, after enable, disable, enable.
C23_Witness ==
    /\ du.rshim_seen = <<"False", "False", "True">>
    /\ C23_Patches(du.reqs) = C23_EnableDisableEnable
    /\ du.cfg.module = "BUNDLE"
    /\ \E k \in 1..Len(du.reqs) : du.reqs[k] = "SimpleUpdate"

\* C24: in every interleaving of the orchestrator and the file-server process a
\* SimpleUpdate request is sent only after the worker bound its port, wrote it and
\* the orchestrator read it; the ImageURI carries exactly the bound port; the port
\* is written at most once and read at most once, the read after the write, and
\* exactly once each when a request is sent; and when nothing arrives within 60
\* seconds the orchestrator ends with FAILED_TO_START_HTTP_SERVER and no request.
C24_PortHandoff ==
    /\ hp.writes <= 1 /\ hp.reads <= hp.writes
    /\ hp.reads = 1 => (hp.pipe = <<>> /\ hp.port = hp.bound)
    /\ hp.reqs # <<>> =>
          /\ hp.bound # 0 /\ hp.writes = 1 /\ hp.reads = 1
          /\ \A k \in 1..Len(hp.reqs) : hp.reqs[k].uri_port = PortText(hp.bound)
    /\ (hp.orch = "done" /\ hp.reads = 0) =>
          /\ hp.outcome = Err("FAILED_TO_START_HTTP_SERVER")
          /\ hp.clock >= 60 /\ hp.reqs = <<>>
    /\ hp.outcome = Err("FAILED_TO_START_HTTP_SERVER") => (hp.reads = 0 /\ hp.reqs = <<>>)

\* The worker was slow, the port arrived within the 60 seconds and the job was
\* submitted with it.
C24_Witness ==
    /\ hp.orch = "done" /\ hp.outcome = Ret("task_handle")
    /\ hp.clock = 59 /\ hp.bound = 40000 /\ hp.port = 40000
    /\ hp.reqs = <<[name |-> "SimpleUpdate", uri_port |-> <<"4", "0", "0", "0", "0">>]>>
    /\ hp.served = MaxServed

\* The poll of the job a BMC or CEC update submitted has ended: it raises
\* TASK_TIMEOUT exactly when the job was still Running at the last sample, and
\* then the seconds slept between the samples are the budget, bmc_seconds for the
\* BMC and 4 minutes for the CEC.
C25_Budget(bmc_seconds) ==
    (wt.pc = "done" /\ wt.task_handle = "own" /\ du.cfg.module \in {"BMC", "CEC"}) =>
        LET budget == IF du.cfg.module = "BMC" THEN bmc_seconds ELSE 4 * 60
        IN  /\ wt.ret = Err("TASK_TIMEOUT") <=>
                  (wt.task_state.state = "Running" /\ ~PollFailed(wt))
            /\ wt.ret = Err("TASK_TIMEOUT") => wt.elapsed = budget

\* C25 as claimed: the poll budget is 15 minutes for a BMC job and 4 minutes for
\* a CEC job; a job still Running at the end of it yields TASK_TIMEOUT.
C25_TimeoutAfter15And4 == C25_Budget(15 * 60)

\* C25 amended: the poll budget is 20 minutes for a BMC job and 4 minutes for a
\* CEC job; a job still Running at the end of it yields TASK_TIMEOUT.
C25_TimeoutAfter20And4 == C25_Budget(20 * 60)

C25_Witness ==
    /\ wt.pc = "done" /\ wt.task_handle = "own" /\ du.cfg.module = "BMC"
    /\ wt.ret = Err("TASK_TIMEOUT") /\ wt.elapsed = 20 * 60 /\ wt.i = 120

\* The requests and calls that follow the poll in update_bmc_or_cec.
C26_AfterPoll ==
    {"Manager.Reset", "Chassis.Reset", "LogService.ClearLog", "_wait_for_bmc_on",
     "try_reboot_cec", "get_ver new", "_check_and_clear_sel_if_needed", "print versions"}

\* What the step after the poll must do when _wait_task returned False.
C26_Step ==
    (du.pc = "own_wait" /\ wt.pc = "done" /\ wt.ret = Ret("False")) =>
        /\ du'.pc = "done" /\ du'.outcome = Ret("None")
        /\ du'.reqs = du.reqs
        /\ du'.steps = Append(du.steps, "_wait_task")

\* C26: when the poll of a BMC or CEC job returns False (identical image),
\* update_bmc_or_cec returns at once: no reset request, no wait for the
\* controller, no second read of the version and no event-log clear check.
C26_SkipStopsEarly ==
    /\ [][C26_Step]_vars
    /\ [](du.skip = "job" =>
            /\ du.pc = "done"
            /\ \A k \in 1..Len(du.reqs) : du.reqs[k] \notin C26_AfterPoll
            /\ \A k \in 1..Len(du.steps) : du.steps[k] \notin C26_AfterPoll)

C26_Witness ==
    /\ du.pc = "done" /\ du.skip = "job" /\ du.cfg.module = "CEC"
    /\ du.reqs = <<"raw push">>
    /\ du.steps = <<"get_ver old", "is_bmc_background_copy_in_progress", "update_bmc_fw",
                    "_wait_task">>

\* The reply to Chassis.Reset rejects it with one of the two error codes.
C27_NotSupportedOrNothingPending(reply) ==
    /\ ~reply.conn_failed /\ reply.response.status_code # 200
    /\ reply.response.has_error
    /\ reply.response.err_code \cap {"ActionNotSupported", "ResourceNotFound"} # {}

C29_VerifiedOrFailed ==
    (du.cfg.module = "BIOS" /\ du.pc = "done" /\ du.outcome = Ret("True")) =>
        (du.new_ver # "" /\ Contains(ImageAtfVer, TextOf(du.new_ver)))

\* The calls of update_conf after the signature check, in the order of its text.
C30_Calls ==
    <<"try_enable_rshim_on_bmc", "simple_update", "_wait_task", "send_reset_bios",
      "Manager.Reset", "_wait_for_bmc_on">>

\* The requests that change the state of the controller, in the order of the claim.
C30_Requests(reqs) ==
    SelectSeq(reqs, LAMBDA r : r \in {"SimpleUpdate", "Bios.ResetBios", "Manager.Reset"})

\* A poll that raised ends update_conf with the poll's error and no further request.
C30_PollStep ==
    (du.cfg.module = "CONFIG" /\ du.pc = "su_wait" /\ wt.pc = "done" /\ Raised(wt.ret)) =>
        (du'.pc = "done" /\ du'.outcome = wt.ret /\ du'.reqs = du.reqs)

\* C30: update_conf makes its steps in the order signature check, access-mode
\* enable, SimpleUpdate push and poll, Bios.ResetBios, Manager.Reset; a step is made
\* only after every earlier step succeeded, so a run that fails at a step has sent
\* none of the later requests, and a run that completes has sent all of them.
C30_ConfOrder ==
    /\ [][C30_PollStep]_vars
    /\ [][du.pc = "done" => du' = du]_vars
    /\ [](du.cfg.module = "CONFIG" =>
            LET steps == du.steps
                reqs == du.reqs
                major == C30_Requests(reqs)
            IN  /\ steps = SubSeq(C30_Calls, 1, Len(steps))
                /\ major = SubSeq(<<"SimpleUpdate", "Bios.ResetBios", "Manager.Reset">>, 1, Len(major))
                /\ \A k \in 1..Len(reqs) :
                      reqs[k] \in {"PATCH BmcRShimEnabled true", "PATCH BmcRShimEnabled false",
                                   "PublicKeyExchange"}
                          => \A m \in 1..k : reqs[m] \notin {"Bios.ResetBios", "Manager.Reset", "SimpleUpdate"}
                /\ steps # <<>> => IsFwFileFor("CONFIG", du.cfg.image)
                /\ reqs # <<>> => steps # <<>>
                /\ Len(steps) >= 2 => (du.rshim_seen # <<>> /\ du.rshim_seen[Len(du.rshim_seen)] = "True")
                /\ Len(major) >= 1 => Len(steps) >= 2
                /\ Len(major) >= 2 => Len(steps) >= 4
                /\ Len(major) >= 3 => Len(steps) >= 5
                /\ Raised(du.outcome) => (du.pc = "done" /\ Len(steps) < Len(C30_Calls))
                /\ (du.pc = "done" /\ ~Raised(du.outcome)) => (steps = C30_Calls /\ Len(major) = 3))

C30_Witness ==
    /\ du.cfg.module = "CONFIG" /\ du.pc = "done" /\ du.outcome = Ret("None")
    /\ du.steps = C30_Calls
    /\ du.reqs = <<"PATCH BmcRShimEnabled true", "SimpleUpdate", "Bios.ResetBios", "Manager.Reset">>

\* C28: a wait after a reset ends without raising, and it ends either on a
\* successful readiness observation (the first one, since the loop goes on only
\* while none was made) or after its bound has expired.
C28_WaitsDegradeSilently ==
    /\ wf.pc = "loop" => ~wf.ready
    /\ wf.pc = "done" => (~Raised(wf.ret) /\ (wf.ready \/ wf.cur > wf.timeout))

\* The reference selection as claimed: a forced protocol that is not allowed gives
\* way to the default preference.
C31_ReferenceAsClaimed(forced, advertised) ==
    IF forced # "None" /\ forced \in advertised \cap {"HTTP", "SCP"} THEN forced
    ELSE IF "HTTP" \in advertised THEN "HTTP"
    ELSE IF "SCP" \in advertised THEN "SCP"
    ELSE "failure"

\* The reference selection: a forced protocol that is not allowed is a failure.
C31_Reference(forced, advertised) ==
    IF forced # "None"
    THEN IF forced \in advertised \cap {"HTTP", "SCP"} THEN forced ELSE "failure"
    ELSE IF "HTTP" \in advertised THEN "HTTP"
    ELSE IF "SCP" \in advertised THEN "SCP"
    ELSE "failure"

\* Once the advertised protocols were read, simple_update's choice is the
\* reference's: on failure NOT_SUPPORT_SIMPLE_UPDATE_PROTOCOL and no request,
\* otherwise the chosen protocol is HTTP or SCP and the submitted request is of
\* that protocol (the key exchange goes with SCP, the file server with HTTP).
C31_Selection(Reference(_, _)) ==
    du.advertised # {"<unbound>"} =>
        LET r == Reference(du.cfg.bfb_update_protocol, du.advertised)
            sent == {du.reqs[k] : k \in 1..Len(du.reqs)}
        IN  IF r = "failure"
            THEN /\ du.pc = "done" /\ du.outcome = Err("NOT_SUPPORT_SIMPLE_UPDATE_PROTOCOL")
                 /\ du.protocol = "None" /\ du.setup = "none"
                 /\ sent \cap {"SimpleUpdate", "PublicKeyExchange"} = {}
            ELSE /\ du.protocol = r /\ r \in {"HTTP", "SCP"}
                 /\ du.setup \in {"none", r}
                 /\ "PublicKeyExchange" \in sent => r = "SCP"
                 /\ "SimpleUpdate" \in sent =>
                        (du.setup = r /\ ("PublicKeyExchange" \in sent <=> r = "SCP"))

\* C31 as claimed: the chosen protocol is the forced one if given and allowed, else
\* HTTP if advertised, else SCP if advertised, else failure.
C31_SelectionAsClaimed == C31_Selection(C31_ReferenceAsClaimed)

\* C31 amended: a forced protocol that is given and not allowed is a failure with
\* NOT_SUPPORT_SIMPLE_UPDATE_PROTOCOL; otherwise as claimed, and HTTPS is never
\* chosen.
C31_SelectionForcedOrDefault == C31_Selection(C31_Reference)

\* The controller advertises HTTPS and SCP, nothing is forced, and the request was
\* submitted over SCP.
C31_Witness ==
    /\ du.advertised = {"HTTPS", "SCP"} /\ du.cfg.bfb_update_protocol = "None"
    /\ du.protocol = "SCP"
    /\ \E k \in 1..Len(du.reqs) : du.reqs[k] = "SimpleUpdate"

\* A step of wait_update_service_ready: it returns only with a read of 'Enabled';
\* a read of the loop that raises or gives another state is followed by a sleep of
\* 4 s and the next iteration; the loop fails only once more than 3 minutes have
\* passed, and the first read, before the loop, fails with its own error.
C32_WaitStep ==
    du.pc \in {"service", "service_wait"} =>
        \/ /\ du'.pc \notin {"service", "service_wait", "done"}
           /\ du'.service_last = "Enabled" /\ du'.service_ready /\ ~Raised(du'.outcome)
           /\ du.pc = "service_wait" => du.elapsed <= 60 * 3
        \/ /\ du'.pc = "service_wait"
           /\ du.pc = "service" => (du'.service_last = "not ready" /\ du'.elapsed = 0)
           /\ du.pc = "service_wait" =>
                 /\ du'.service_last \in {"not ready", "error"}
                 /\ du.elapsed <= 60 * 3 /\ du'.elapsed = du.elapsed + 4
        \/ /\ du'.pc = "done" /\ Raised(du'.outcome)
           /\ du.pc = "service" => du'.service_last = "error"
           /\ du.pc = "service_wait" =>
                 /\ du.elapsed > 60 * 3
                 /\ du'.outcome = Err("UPDATE_SERVICE_NOT_READY")
                 /\ du'.service_last = du.service_last

\* C32: wait_update_service_ready returns normally only after a read of the
\* update-service state gave 'Enabled'; without such a read within 3 minutes of
\* polling every 4 s it fails with UPDATE_SERVICE_NOT_READY; a read error inside
\* the loop counts as not yet ready and does not end the wait.
C32_ReadyOrTimeout ==
    /\ [][C32_WaitStep]_vars
    /\ [](du.pc # "idle" =>
            /\ du.service_ready <=> du.service_last = "Enabled"
            /\ (du.pc = "done" /\ du.outcome = Err("UPDATE_SERVICE_NOT_READY")) =>
                  (du.elapsed > 60 * 3 /\ du.service_last \in {"not ready", "error"}))

\* The wait ran out after a loop whose last read raised.
C32_Witness ==
    /\ du.pc = "done" /\ du.outcome = Err("UPDATE_SERVICE_NOT_READY")
    /\ du.service_last = "error" /\ du.elapsed = 184

\* The positions of a request in the requests sent, and of a call in the calls made.
C33_Sent(name) == {k \in 1..Len(du.reqs) : du.reqs[k] = name}

C33_Called(name) == {k \in 1..Len(du.steps) : du.steps[k] = name}

\* C33: in update_bundle the runtime-mode path and the full-reboot path exclude
\* each other.  With lfwp: LFWP Enabled is sent before SimpleUpdate, LFWP Disabled
\* after the job poll, there is no boot-readiness wait and no Bios.ResetBios.
\* Without lfwp: no LFWP request, and the boot-readiness wait follows the job poll.
\* With lfwp that the controller does not support: failure before any request.
C33_BundlePathsExclusive ==
    (du.pc # "idle" /\ du.cfg.module = "BUNDLE") =>
        /\ du.cfg.lfwp =>
              /\ C33_Sent("Bios.ResetBios") = {} /\ C33_Called("_wait_for_dpu_ready") = {}
              /\ Cardinality(C33_Sent("LFWP Enabled")) <= 1
              /\ Cardinality(C33_Sent("LFWP Disabled")) <= 1
              /\ \A k \in C33_Sent("SimpleUpdate") : \E j \in C33_Sent("LFWP Enabled") : j < k
              /\ \A k \in C33_Sent("LFWP Disabled") :
                    /\ C33_Called("_wait_task") # {}
                    /\ \E j \in C33_Sent("SimpleUpdate") : j < k
              /\ (du.pc = "done" /\ du.outcome = Ret("True")) => C33_Sent("LFWP Disabled") # {}
        /\ ~du.cfg.lfwp =>
              /\ C33_Sent("LFWP Enabled") = {} /\ C33_Sent("LFWP Disabled") = {}
              /\ \A k \in C33_Called("_wait_for_dpu_ready") :
                    \E j \in C33_Called("_wait_task") : j < k
              /\ (du.pc \in {"reset_bios", "bundle_new_vers"}
                     \/ (du.pc = "done" /\ du.outcome = Ret("True")))
                    => C33_Called("_wait_for_dpu_ready") # {}
              /\ C33_Sent("Bios.ResetBios") # {} => du.cfg.reset_bios
        /\ du.outcome = ErrMsg("UNSUPPORTED_MODULE", {"LFWP.Set is not supported on this BMC"}) =>
              (du.cfg.lfwp /\ du.reqs = <<>> /\ du.steps = <<>>)

\* A runtime-mode bundle update that was asked for a factory reset as well and
\* completed: enable, transfer, disable, and no reset.
C33_Witness ==
    /\ du.cfg.module = "BUNDLE" /\ du.cfg.lfwp /\ du.cfg.reset_bios
    /\ du.pc = "done" /\ du.outcome = Ret("True")
    /\ C33_Sent("LFWP Enabled") # {} /\ C33_Sent("SimpleUpdate") # {}
    /\ C33_Sent("LFWP Disabled") # {}

\* The lines of the file that are this key.
C34_Lines(key) == {k \in 1..Len(ak.file) : ak.file[k] = key}

\* C34: each controller key occurs at most once in authorized_keys after any number
\* of key exchanges, and a key exchange, whether or not it calls
\* set_bmc_key_into_local_authorized_keys and however that call ends, leaves the
\* file with the permission bits it had.
C34_OnceAndModeRestored ==
    /\ [](ak.pc # "idle" =>
            \A key \in {<<"a">>, <<"a", "b">>, <<"c">>} : Cardinality(C34_Lines(key)) <= 1)
    /\ [][ak.pc = "loop" => ak'.mode = ak.mode]_vars

\* C40: the SSH password is in no message of an exception that leaves the engine,
\* in no console print, and in nothing log() wrote of the command.
C40_NoSshPasswordOutside ==
    cm.pc = "done" =>
        /\ ~Occurs(cm.ssh_password, cm.message)
        /\ ~Occurs(cm.ssh_password, cm.console)
        /\ ~Occurs(cm.ssh_password, cm.logged)

\* C35: do_update starts a module workflow only when its latest inspection of the
\* last task succeeded and showed no task or a task that is not Running.
C35_InspectionGate ==
    du.pc = "dispatch" => du.inspection = "not running"

\* C36: when the wait on the prior job ends with the job in a terminal state
\* (success, identical image or failure) do_update goes on to the re-check, and
\* when the re-check finds no Running job it goes on to the module workflow.
C36_PriorOutcomeIgnored ==
    /\ [][(du.pc = "priorwait" /\ wt.pc = "done" /\ wt.task_state.state \notin {"Running", "unbound"})
            => du'.pc = "recheck"]_vars
    /\ [][(du.pc = "recheck" /\ du'.inspection = "not running") => du'.pc = "dispatch"]_vars


\* C37: update_bios ends as "same version" only when skipping was requested and a
\* non-empty current ATF version was read that occurs in the image's embedded version
\* string; an unreadable current version (get_ver returning '') never skips.
C37_SkipOnlyOnReadMatch ==
    (du.cfg.module = "BIOS" /\ du.skip = "version") =>
        /\ du.cfg.skip_same_version
        /\ du.cur_atf # ""
        /\ Occurs(TextOf(du.cur_atf), ImageAtfVer)


\* C38: in the BIOS, CONFIG and BUNDLE workflows the steps after the transfer (version
\* verification, Bios.ResetBios, Manager.Reset, boot-readiness wait, LFWP disable) are
\* entered only when the poll of the job returned True; after a poll that returned
\* False (identical image) or raised, none of them is entered.
C38_PostStepsOnlyAfterTrue ==
    [][(du.pc = "su_wait" /\ wt.pc = "done" /\ wt.ret # Ret("True"))
          => /\ du'.pc \notin {"bios_verify", "reset_bios", "reboot", "lfwp_disable", "bundle_new_vers"}
             /\ du'.steps = Append(du.steps, "_wait_task")]_vars


\* C39: for every max_second >= 0 and check_step >= 1, max_second < check_step
\* included, _wait_task has polled the job at least once when it classifies: it ends
\* with the error of a poll that failed or with an outcome derived from a sample.
C39_SampledBeforeClassified ==
    wt.pc \in {"check", "done"} =>
        /\ PollFailed(wt) \/ wt.task_state # NoSample
        /\ wt.ret # Exc("UnboundLocalError")

====
